---- MODULE Spec2Model ----
(***************************************************************************)
(* GLib dynamic arrays (glib/garray.c): GArray / GByteArray (GRealArray)   *)
(* and GPtrArray (GRealPtrArray).                                          *)
(*                                                                         *)
(* Memory is modelled per element: a data block is a sequence of element   *)
(* values, 0 is the all-zero element (a NULL pointer in a GPtrArray),      *)
(* Junk is a non-zero uninitialised element, and 1, 2, ... are payloads    *)
(* handed in by the caller.  Indices are 0-based as in the C code.         *)
(***************************************************************************)
EXTENDS Integers, Sequences, FiniteSets, TLC

\* ------------------------------------------------------------------ bounds
UINT_WIDTH == 5          \* bits of a guint in the model
SIZE_WIDTH == 10         \* bits of a gsize in the model
MaxAdd == 2              \* payload elements handed to one array over its life
MaxLen == 2              \* largest length an array is grown to
MaxEdit == 4             \* payload elements added in one sequence of edits
MaxSearchLen == 4        \* longest sorted array searched
MaxKey == 3              \* largest key stored in a searched array
MaxSortLen == 3          \* longest array sorted
MaxInsertAt == 4         \* largest index inserted at
MaxAppend == 20          \* elements appended one at a time to one array
NThreads == 2            \* threads sharing one array
MaxLength == 2           \* bytes handed to one g_file_set_contents_full call
MaxEintr == 1            \* EINTR results of write during one call
MaxRef == 2              \* largest reference count reached

\* --------------------------------------------------------- program constants
MIN_ARRAY_SIZE == 16
SIZEOF_GPOINTER == 8

G_MAXUINT == 2^UINT_WIDTH - 1
G_MAXSIZE == 2^SIZE_WIDTH - 1

MIN(a, b) == IF a < b THEN a ELSE b
MAX(a, b) == IF a > b THEN a ELSE b

\* guint arithmetic wraps modulo 2^UINT_WIDTH
U(x) == x % (G_MAXUINT + 1)

\* reallocs is <<n>> after n g_realloc calls, and <<>> when they are not counted
Uncounted == <<>>
Junk == -1
EltSizes == {8}
GrowEltSizes == {1, 3, 32}   \* element sizes of the arrays grown to their limit            \* element sizes of the GArrays created
Counts == {0, 1, 2}        \* elements handed to one call
TakeCounts == {0, 1, 3}    \* elements of a block handed to a constructor
ReservedSizes == {0, 1}    \* reserved_size given to a constructor

\* ------------------------------------------------------------------ memory
\* A pointer to a block of elements: NULL, or a block with its contents.
NULL == [null |-> TRUE, mem |-> <<>>]
Block(m) == [null |-> FALSE, mem |-> m]

\* whether elements pos .. pos+n-1 lie inside the block p points to
InBlock(p, pos, n) == n = 0 \/ (~p.null /\ pos >= 0 /\ pos + n <= Len(p.mem))

\* the n elements at pos (an element outside the block reads as Junk)
Load(p, pos, n) ==
  [i \in 1..n |-> IF pos + i \in 1..Len(p.mem) THEN p.mem[pos + i] ELSE Junk]

\* p with vals written at pos (a write outside the block is dropped)
Store(p, pos, vals) ==
  [null |-> p.null,
   mem |-> [i \in 1..Len(p.mem) |->
              IF i > pos /\ i <= pos + Len(vals) THEN vals[i - pos] ELSE p.mem[i]]]

Zeros(n) == [i \in 1..n |-> 0]

\* g_realloc (p, bytes): a block of n elements keeping the old contents; the
\* new elements are uninitialised and hold fill
g_realloc(p, n, fill) ==
  Block([i \in 1..n |-> IF i <= Len(p.mem) THEN p.mem[i] ELSE fill])

\* smallest power of two >= n (gutilsprivate.h)
RECURSIVE pow_from(_, _)
pow_from(n, p) == IF p >= n THEN p ELSE pow_from(n, 2 * p)
g_nearest_pow(n) == pow_from(n, 1)

\* grefcount.h
g_atomic_ref_count_inc(rc) == rc + 1
g_atomic_ref_count_dec(rc) == rc - 1

VARIABLES
  facade,             \* "GArray", "GByteArray" or "GPtrArray": the array in use
  g_mem_gc_friendly,  \* the global debugging flag
  array,              \* the GRealArray
  rarray,             \* the GRealPtrArray
  wrapper,            \* "live", "freed" (g_slice_free1) or "aborted" (g_error)
  trace,              \* destructor and g_free calls of the latest call, in order
  oob,                \* some call accessed an element outside the data block
  ret,                \* what the latest call returned
  critical,           \* the latest call failed a g_return_if_fail check
  op,                 \* the latest call
  observe,            \* whether trace, ret, critical and op are being recorded
  threads,            \* the references each thread holds, and the frees under way
  reallocs,           \* <<g_realloc calls since the array was created>>, if counted
  donor,              \* the GPtrArray whose pointers another one takes over
  fs,                 \* the directory entries filename and tmp_filename
  call,               \* the g_file_set_contents_full call under way
  others,             \* the calls of the other writers, each with its temporary file
  nextId,             \* next unused payload
  added, removed      \* payloads handed to the array / taken out of it again

vars == <<facade, g_mem_gc_friendly, array, rarray, wrapper, trace, oob, ret,
          critical, op, observe, threads, reallocs, donor, fs, call, others,
          nextId, added, removed>>

\* ------------------------------------------------------------------ GArray
\* An execution context c holds the structure and the effects accumulated by
\* the call in progress: the destructor/g_free calls (trace), whether an
\* access left the block (oob), whether g_error aborted the process (fatal),
\* whether a g_return_if_fail check failed (critical), whether the wrapper
\* was released (freed), and the value returned (ret).

RetVoid == [void |-> TRUE]
RetSelf == [self |-> TRUE]                   \* the array passed in
RetNull == [null |-> TRUE]                   \* NULL
RetElem(v) == [elem |-> v]                   \* a pointer stored in a GPtrArray
RetSeg(p, n) == [segment |-> p, len |-> n]   \* a data block and *len
RetPtr(p) == [segment |-> p]                 \* a data block
RetBool(b) == [bool |-> b]
\* TRUE, and the index written to *out_match_index
RetFound(i) == [bool |-> TRUE, out_match_index |-> i]

Ctx(a) == [array |-> a, trace |-> <<>>, oob |-> FALSE, fatal |-> FALSE,
           critical |-> FALSE, freed |-> FALSE, ret |-> RetVoid,
            reallocs |-> 0]

\* g_return_val_if_fail: log a critical and return NULL, nothing else done
g_return_val_if_fail(c) == [c EXCEPT !.critical = TRUE, !.ret = RetNull]

g_array_elt_len(a, i) == a.elt_size * i

\* memset (g_array_elt_pos (array, pos), 0, g_array_elt_len (array, len))
g_array_elt_zero(c, pos, n) ==
  [c EXCEPT !.array.data = Store(c.array.data, pos, Zeros(n)),
            !.oob = @ \/ ~InBlock(c.array.data, pos, n)]

\* g_array_zero_terminate that writes nothing
g_array_zero_terminate_skipped(c) == c

g_array_zero_terminate(c) ==
  IF c.array.zero_terminated = 1 THEN g_array_elt_zero(c, c.array.len, 1) ELSE c

\* memcpy (g_array_elt_pos (array, pos), data, g_array_elt_len (array, len))
elt_memcpy(c, pos, vals) ==
  [c EXCEPT !.array.data = Store(c.array.data, pos, vals),
            !.oob = @ \/ ~InBlock(c.array.data, pos, Len(vals))]

\* memmove (g_array_elt_pos (array, dst), g_array_elt_pos (array, src), n elements)
elt_memmove(c, dst, src, n) ==
  [c EXCEPT !.array.data = Store(c.array.data, dst, Load(c.array.data, src, n)),
            !.oob = @ \/ ~InBlock(c.array.data, src, n)
                      \/ ~InBlock(c.array.data, dst, n)]

\* g_array_maybe_expand that reserves no room for the terminating element
g_array_maybe_expand_unterminated(c, len, fill) ==
  LET a == c.array
      max_len == U(MIN((G_MAXSIZE \div 2) \div a.elt_size, G_MAXUINT) - a.zero_terminated)
      want_len == U(a.len + len)
      want_alloc == MAX(g_nearest_pow(g_array_elt_len(a, want_len)), MIN_ARRAY_SIZE)
      grown == [c EXCEPT !.array.data = g_realloc(a.data, want_alloc \div a.elt_size, fill),
                         !.reallocs = @ + 1]
  IN IF U(max_len - a.len) < len
     THEN [c EXCEPT !.fatal = TRUE]
     ELSE IF want_len > a.elt_capacity
          THEN [grown EXCEPT !.array.elt_capacity =
                                MIN(want_alloc \div a.elt_size, G_MAXUINT)]
          ELSE c

\* g_array_maybe_expand that allocates the bytes wanted and no more
g_array_maybe_expand_exact(c, len, fill) ==
  LET a == c.array
      max_len == U(MIN((G_MAXSIZE \div 2) \div a.elt_size, G_MAXUINT) - a.zero_terminated)
      want_len == U(a.len + len + a.zero_terminated)
      want_alloc == g_array_elt_len(a, want_len)
      grown == [c EXCEPT !.array.data = g_realloc(a.data, want_alloc \div a.elt_size, fill),
                         !.reallocs = @ + 1]
      scrubbed == IF g_mem_gc_friendly
                  THEN g_array_elt_zero(grown, a.elt_capacity, want_len - a.elt_capacity)
                  ELSE grown
  IN IF U(max_len - a.len) < len
     THEN [c EXCEPT !.fatal = TRUE]
     ELSE IF want_len > a.elt_capacity
          THEN [scrubbed EXCEPT !.array.elt_capacity =
                                   MIN(want_alloc \div a.elt_size, G_MAXUINT)]
          ELSE c

g_array_maybe_expand(c, len, fill) ==
  LET a == c.array
      max_len == U(MIN((G_MAXSIZE \div 2) \div a.elt_size, G_MAXUINT) - a.zero_terminated)
      want_len == U(a.len + len + a.zero_terminated)
      want_alloc == MAX(g_nearest_pow(g_array_elt_len(a, want_len)), MIN_ARRAY_SIZE)
      grown == [c EXCEPT !.array.data = g_realloc(a.data, want_alloc \div a.elt_size, fill),
                         !.reallocs = @ + 1]
      scrubbed == IF g_mem_gc_friendly
                  THEN g_array_elt_zero(grown, a.elt_capacity, want_len - a.elt_capacity)
                  ELSE grown
  IN IF U(max_len - a.len) < len
     THEN [c EXCEPT !.fatal = TRUE]
     ELSE IF want_len > a.elt_capacity
          THEN [scrubbed EXCEPT !.array.elt_capacity =
                                   MIN(want_alloc \div a.elt_size, G_MAXUINT)]
          ELSE c

g_array_sized_new(zero_terminated, clear, elt_size, reserved_size, fill) ==
  LET a == [data |-> NULL, len |-> 0, elt_capacity |-> 0,
            zero_terminated |-> IF zero_terminated THEN 1 ELSE 0,
            clear |-> clear, elt_size |-> elt_size,
            clear_func |-> FALSE, ref_count |-> 1]
      e == g_array_maybe_expand(Ctx(a), reserved_size, fill)
  IN IF a.zero_terminated = 1 \/ reserved_size # 0
     THEN IF e.fatal THEN e ELSE g_array_zero_terminate(e)
     ELSE Ctx(a)

g_array_new(zero_terminated, clear, elt_size) ==
  g_array_sized_new(zero_terminated, clear, elt_size, 0, Junk)

\* index of the first all-zero element of the block, scanning from i
RECURSIVE first_zero(_, _)
first_zero(p, i) ==
  IF i >= Len(p.mem) \/ p.mem[i + 1] = 0 THEN i ELSE first_zero(p, i + 1)

g_array_new_take(data, len, clear, element_size) ==
  LET c == g_array_sized_new(FALSE, clear, element_size, 0, Junk)
  IN [c EXCEPT !.array.data = data, !.array.len = len, !.array.elt_capacity = len]

g_array_new_take_zero_terminated(data, clear, element_size) ==
  LET len == IF data.null THEN 0 ELSE first_zero(data, 0)
      c == g_array_new_take(data, len, clear, element_size)
      z == [c EXCEPT !.array.zero_terminated = 1]
  IN IF ~z.array.data.null THEN [z EXCEPT !.array.elt_capacity = len + 1] ELSE z

\* g_array_steal that leaves len as it was
g_array_steal_keeping_len(c) ==
  [c EXCEPT !.ret = RetSeg(c.array.data, c.array.len),
            !.array.data = NULL, !.array.elt_capacity = 0]

g_array_steal(c) ==
  [c EXCEPT !.ret = RetSeg(c.array.data, c.array.len),
            !.array.data = NULL, !.array.len = 0, !.array.elt_capacity = 0]

g_array_set_clear_func(c, clear_func) == [c EXCEPT !.array.clear_func = clear_func]

\* g_array_ref that leaves the reference count as it was
g_array_ref_uncounted(c) == [c EXCEPT !.ret = RetSelf]

g_array_ref(c) ==
  [c EXCEPT !.array.ref_count = g_atomic_ref_count_inc(@), !.ret = RetSelf]

\* the clear_func calls of array_free's loop, i = from .. len-1
RECURSIVE clear_each(_, _, _)
clear_each(c, from, to) ==
  IF from >= to THEN c
  ELSE clear_each([c EXCEPT !.trace = Append(@, [clear_func |-> Load(c.array.data, from, 1)[1]]),
                            !.oob = @ \/ ~InBlock(c.array.data, from, 1)],
                  from + 1, to)

FREE_SEGMENT == "FREE_SEGMENT"
PRESERVE_WRAPPER == "PRESERVE_WRAPPER"

array_free(c, flags) ==
  LET cleared == IF c.array.clear_func THEN clear_each(c, 0, c.array.len) ELSE c
      seg == IF FREE_SEGMENT \in flags
             THEN [cleared EXCEPT !.trace = Append(@, [g_free |-> c.array.data]),
                                  !.ret = RetPtr(NULL)]
             ELSE [c EXCEPT !.ret = RetPtr(c.array.data)]
  IN IF PRESERVE_WRAPPER \in flags
     THEN [seg EXCEPT !.array.data = NULL, !.array.len = 0, !.array.elt_capacity = 0]
     ELSE [seg EXCEPT !.freed = TRUE]

\* g_array_unref that frees the array whatever the reference count
g_array_unref_eager(c) ==
  LET d == [c EXCEPT !.array.ref_count = g_atomic_ref_count_dec(@)]
  IN [array_free(d, {FREE_SEGMENT}) EXCEPT !.ret = RetVoid]

g_array_unref(c) ==
  LET d == [c EXCEPT !.array.ref_count = g_atomic_ref_count_dec(@)]
  IN IF d.array.ref_count = 0
     THEN [array_free(d, {FREE_SEGMENT}) EXCEPT !.ret = RetVoid]
     ELSE d

\* g_array_free that frees the wrapper whatever the reference count
g_array_free_unshared(c, free_segment) ==
  LET d == [c EXCEPT !.array.ref_count = g_atomic_ref_count_dec(@)]
      flags == IF free_segment THEN {FREE_SEGMENT} ELSE {}
  IN array_free(d, flags)

g_array_free(c, free_segment) ==
  LET d == [c EXCEPT !.array.ref_count = g_atomic_ref_count_dec(@)]
      flags == (IF free_segment THEN {FREE_SEGMENT} ELSE {})
               \cup (IF d.array.ref_count # 0 THEN {PRESERVE_WRAPPER} ELSE {})
  IN array_free(d, flags)

\* g_array_append_vals that does not grow the block first
g_array_append_vals_unexpanded(c, data, fill) ==
  LET len == Len(data)
      w == elt_memcpy(c, c.array.len, data)
  IN IF len = 0 THEN [c EXCEPT !.ret = RetSelf]
     ELSE [g_array_zero_terminate([w EXCEPT !.array.len = U(@ + len)])
             EXCEPT !.ret = RetSelf]

g_array_append_vals(c, data, fill) ==
  LET len == Len(data)
      e == g_array_maybe_expand(c, len, fill)
      w == elt_memcpy(e, e.array.len, data)
  IN IF len = 0 THEN [c EXCEPT !.ret = RetSelf]
     ELSE IF e.fatal THEN e
     ELSE [g_array_zero_terminate([w EXCEPT !.array.len = U(@ + len)])
             EXCEPT !.ret = RetSelf]

\* g_array_prepend_vals that does not move the old elements up first
g_array_prepend_vals_unshifted(c, data, fill) ==
  LET len == Len(data)
      e == g_array_maybe_expand(c, len, fill)
      w == elt_memcpy(e, 0, data)
  IN IF len = 0 THEN [c EXCEPT !.ret = RetSelf]
     ELSE IF e.fatal THEN e
     ELSE [g_array_zero_terminate([w EXCEPT !.array.len = U(@ + len)])
             EXCEPT !.ret = RetSelf]

g_array_prepend_vals(c, data, fill) ==
  LET len == Len(data)
      e == g_array_maybe_expand(c, len, fill)
      m == elt_memmove(e, len, 0, e.array.len)
      w == elt_memcpy(m, 0, data)
  IN IF len = 0 THEN [c EXCEPT !.ret = RetSelf]
     ELSE IF e.fatal THEN e
     ELSE [g_array_zero_terminate([w EXCEPT !.array.len = U(@ + len)])
             EXCEPT !.ret = RetSelf]

\* g_array_remove_index that fills the gap with the last element
g_array_remove_index_swapping(c, index_) ==
  LET a == c.array
      d == IF a.clear_func
           THEN [c EXCEPT !.trace = Append(@, [clear_func |-> Load(a.data, index_, 1)[1]])]
           ELSE c
      m == IF index_ # U(a.len - 1)
           THEN elt_memcpy(d, index_, Load(a.data, a.len - 1, 1))
           ELSE d
      l == [m EXCEPT !.array.len = U(@ - 1)]
      z == IF g_mem_gc_friendly THEN g_array_elt_zero(l, l.array.len, 1)
           ELSE g_array_zero_terminate(l)
  IN IF ~(index_ < a.len) THEN g_return_val_if_fail(c)
     ELSE [z EXCEPT !.ret = RetSelf]

g_array_remove_index(c, index_) ==
  LET a == c.array
      d == IF a.clear_func
           THEN [c EXCEPT !.trace = Append(@, [clear_func |-> Load(a.data, index_, 1)[1]])]
           ELSE c
      m == IF index_ # U(a.len - 1)
           THEN elt_memmove(d, index_, index_ + 1, a.len - index_ - 1)
           ELSE d
      l == [m EXCEPT !.array.len = U(@ - 1)]
      z == IF g_mem_gc_friendly THEN g_array_elt_zero(l, l.array.len, 1)
           ELSE g_array_zero_terminate(l)
  IN IF ~(index_ < a.len) THEN g_return_val_if_fail(c)
     ELSE [z EXCEPT !.ret = RetSelf]

\* g_array_remove_index_fast that does not check index_ against len
g_array_remove_index_fast_unchecked(c, index_) ==
  LET a == c.array
      d == IF a.clear_func
           THEN [c EXCEPT !.trace = Append(@, [clear_func |-> Load(a.data, index_, 1)[1]])]
           ELSE c
      m == IF index_ # U(a.len - 1)
           THEN elt_memcpy(d, index_, Load(a.data, a.len - 1, 1))
           ELSE d
      l == [m EXCEPT !.array.len = U(@ - 1)]
      z == IF g_mem_gc_friendly THEN g_array_elt_zero(l, l.array.len, 1)
           ELSE g_array_zero_terminate(l)
  IN [z EXCEPT !.ret = RetSelf]

g_array_remove_index_fast(c, index_) ==
  LET a == c.array
      d == IF a.clear_func
           THEN [c EXCEPT !.trace = Append(@, [clear_func |-> Load(a.data, index_, 1)[1]])]
           ELSE c
      m == IF index_ # U(a.len - 1)
           THEN elt_memcpy(d, index_, Load(a.data, a.len - 1, 1))
           ELSE d
      l == [m EXCEPT !.array.len = U(@ - 1)]
      z == IF g_mem_gc_friendly THEN g_array_elt_zero(l, l.array.len, 1)
           ELSE g_array_zero_terminate(l)
  IN IF ~(index_ < a.len) THEN g_return_val_if_fail(c)
     ELSE [z EXCEPT !.ret = RetSelf]

\* g_array_remove_range that calls clear_func after moving the tail down
g_array_remove_range_clearing_late(c, index_, length) ==
  LET a == c.array
      m == IF U(index_ + length) # a.len
           THEN elt_memmove(c, index_, index_ + length, a.len - (index_ + length))
           ELSE c
      d == IF a.clear_func THEN clear_each(m, index_, index_ + length) ELSE m
      l == [d EXCEPT !.array.len = U(@ - length)]
      z == IF g_mem_gc_friendly THEN g_array_elt_zero(l, l.array.len, length)
           ELSE g_array_zero_terminate(l)
  IN IF ~(index_ <= a.len) \/ ~(index_ <= G_MAXUINT - length)
        \/ ~(U(index_ + length) <= a.len)
     THEN g_return_val_if_fail(c)
     ELSE IF length = 0 THEN [c EXCEPT !.ret = RetSelf]
     ELSE [z EXCEPT !.ret = RetSelf]

g_array_remove_range(c, index_, length) ==
  LET a == c.array
      d == IF a.clear_func THEN clear_each(c, index_, index_ + length) ELSE c
      m == IF U(index_ + length) # a.len
           THEN elt_memmove(d, index_, index_ + length, a.len - (index_ + length))
           ELSE d
      l == [m EXCEPT !.array.len = U(@ - length)]
      z == IF g_mem_gc_friendly THEN g_array_elt_zero(l, l.array.len, length)
           ELSE g_array_zero_terminate(l)
  IN IF ~(index_ <= a.len) \/ ~(index_ <= G_MAXUINT - length)
        \/ ~(U(index_ + length) <= a.len)
     THEN g_return_val_if_fail(c)
     ELSE IF length = 0 THEN [c EXCEPT !.ret = RetSelf]
     ELSE [z EXCEPT !.ret = RetSelf]

\* g_array_set_size that never zeroes the new elements
g_array_set_size_uncleared(c, length, fill) ==
  LET a == c.array
      e == g_array_maybe_expand(c, length - a.len, fill)
      r == g_array_remove_range(c, length, a.len - length)
      b == IF length > a.len THEN e
           ELSE IF length < a.len THEN r
           ELSE c
      l == [b EXCEPT !.array.len = length]
  IN IF b.fatal THEN b
     ELSE [(IF ~l.array.data.null THEN g_array_zero_terminate(l) ELSE l)
             EXCEPT !.ret = RetSelf]

g_array_set_size(c, length, fill) ==
  LET a == c.array
      e == g_array_maybe_expand(c, length - a.len, fill)
      g == IF a.clear THEN g_array_elt_zero(e, a.len, length - a.len) ELSE e
      r == g_array_remove_range(c, length, a.len - length)
      b == IF length > a.len THEN (IF e.fatal THEN e ELSE g)
           ELSE IF length < a.len THEN r
           ELSE c
      l == [b EXCEPT !.array.len = length]
  IN IF b.fatal THEN b
     ELSE [(IF ~l.array.data.null THEN g_array_zero_terminate(l) ELSE l)
             EXCEPT !.ret = RetSelf]

\* g_array_insert_vals that does not set the size to index_ before appending
\* g_array_insert_vals that adds index_ and len in a guint past the end
g_array_insert_vals_wrapping(c, index_, data, fill) ==
  LET a == c.array
      len == Len(data)
      x == g_array_maybe_expand(c, U(index_ - a.len + len), fill)
      e == g_array_maybe_expand(c, len, fill)
      m == elt_memmove(e, len + index_, index_, a.len - index_)
      w == elt_memcpy(m, index_, data)
  IN IF len = 0 THEN [c EXCEPT !.ret = RetSelf]
     ELSE IF index_ >= a.len
          THEN IF x.fatal THEN x
               ELSE [g_array_zero_terminate(
                       [elt_memcpy(x, index_, data) EXCEPT !.array.len = U(index_ + len)])
                       EXCEPT !.ret = RetSelf]
          ELSE IF e.fatal THEN e
               ELSE [g_array_zero_terminate([w EXCEPT !.array.len = U(@ + len)])
                       EXCEPT !.ret = RetSelf]

g_array_insert_vals_ungapped(c, index_, data, fill) ==
  LET a == c.array
      len == Len(data)
      x == g_array_maybe_expand(c, U(index_ - a.len + len), fill)
      e == g_array_maybe_expand(c, len, fill)
      m == elt_memmove(e, len + index_, index_, a.len - index_)
      w == elt_memcpy(m, index_, data)
  IN IF len = 0 THEN [c EXCEPT !.ret = RetSelf]
     ELSE IF index_ >= a.len
          THEN IF x.fatal THEN x
               ELSE g_array_append_vals(x, data, fill)
          ELSE IF e.fatal THEN e
               ELSE [g_array_zero_terminate([w EXCEPT !.array.len = U(@ + len)])
                       EXCEPT !.ret = RetSelf]

g_array_insert_vals(c, index_, data, fill) ==
  LET a == c.array
      len == Len(data)
      \* index_ >= array->len
      x == g_array_maybe_expand(c, U(index_ - a.len + len), fill)
      s == g_array_set_size(x, index_, fill)
      \* index_ < array->len
      e == g_array_maybe_expand(c, len, fill)
      m == elt_memmove(e, len + index_, index_, a.len - index_)
      w == elt_memcpy(m, index_, data)
  IN IF len = 0 THEN [c EXCEPT !.ret = RetSelf]
     ELSE IF index_ >= a.len
          THEN IF x.fatal THEN x
               ELSE IF s.fatal THEN s
               ELSE g_array_append_vals(s, data, fill)
          ELSE IF e.fatal THEN e
               ELSE [g_array_zero_terminate([w EXCEPT !.array.len = U(@ + len)])
                       EXCEPT !.ret = RetSelf]

g_array_copy(c, fill) ==
  LET a == c.array
      n == g_array_sized_new(a.zero_terminated = 1, a.clear, a.elt_size, a.len, fill)
      l == [n EXCEPT !.array.len = a.len]
      w == IF a.len > 0 THEN elt_memcpy(l, 0, Load(a.data, 0, a.len)) ELSE l
  IN IF n.fatal THEN n ELSE g_array_zero_terminate(w)

\* the comparison function of the documentation's example: *_a - *_b
cmpint(a, b) == a - b

\* g_array_binary_search that gives up where the target is above the middle
g_array_binary_search_below(c, target, left, right) ==
  LET middle == left + (right - left) \div 2
      val == cmpint(Load(c.array.data, middle, 1)[1], target)
      looked == [c EXCEPT !.oob = @ \/ ~InBlock(c.array.data, middle, 1)]
  IN IF ~(left <= right) THEN [c EXCEPT !.ret = RetBool(FALSE)]
     ELSE IF val = 0 THEN [looked EXCEPT !.ret = RetFound(middle)]
     ELSE [looked EXCEPT !.ret = RetBool(FALSE)]

\* the while loop of g_array_binary_search, from left and right
RECURSIVE binary_search_loop(_, _, _, _)
binary_search_loop(c, target, left, right) ==
  LET middle == left + (right - left) \div 2
      val == cmpint(Load(c.array.data, middle, 1)[1], target)
      looked == [c EXCEPT !.oob = @ \/ ~InBlock(c.array.data, middle, 1),
                          !.trace = Append(@, [compare_func |-> middle,
                                               left |-> left, right |-> right])]
  IN IF ~(left <= right) THEN [c EXCEPT !.ret = RetBool(FALSE)]
     ELSE IF val = 0 THEN [looked EXCEPT !.ret = RetFound(middle)]
     ELSE IF val < 0 THEN binary_search_loop(looked, target, U(middle + 1), right)
     ELSE IF middle > 0 THEN binary_search_loop(looked, target, left, U(middle - 1))
     ELSE [looked EXCEPT !.ret = RetBool(FALSE)]

\* g_array_binary_search that compares the last element before the loop
g_array_binary_search_end_first(c, target) ==
  IF c.array.len # 0
  THEN binary_search_loop(
         [c EXCEPT !.trace = Append(@, [compare_func |-> c.array.len - 1,
                                        left |-> 0, right |-> c.array.len - 1])],
         target, 0, c.array.len - 1)
  ELSE [c EXCEPT !.ret = RetBool(FALSE)]

g_array_binary_search(c, target) ==
  IF c.array.len # 0
  THEN binary_search_loop(c, target, 0, c.array.len - 1)
  ELSE [c EXCEPT !.ret = RetBool(FALSE)]

\* a comparison function under which different elements can compare equal:
\* it orders elements by the key v / 2
cmpkey(a, b) == (a \div 2) - (b \div 2)

\* s is in order; x goes after every element that does not compare greater
RECURSIVE sort_insert(_, _)
sort_insert(s, x) ==
  IF s = <<>> THEN <<x>>
  ELSE IF cmpkey(s[Len(s)], x) <= 0 THEN Append(s, x)
  ELSE Append(sort_insert(SubSeq(s, 1, Len(s) - 1), x), s[Len(s)])

RECURSIVE stable_sort(_)
stable_sort(s) ==
  IF s = <<>> THEN <<>>
  ELSE sort_insert(stable_sort(SubSeq(s, 1, Len(s) - 1)), s[Len(s)])

\* g_sort_array (base, n, size, compare_func, user_data): a stable sort of the
\* n elements at base
g_sort_array(base, n) == Store(base, 0, stable_sort(Load(base, 0, n)))

\* g_array_sort that leaves the last element where it is
g_array_sort_short(c) ==
  IF c.array.len > 0
  THEN [c EXCEPT !.array.data = g_sort_array(c.array.data, c.array.len - 1)]
  ELSE c

g_array_sort(c) ==
  IF c.array.len > 0
  THEN [c EXCEPT !.array.data = g_sort_array(c.array.data, c.array.len)]
  ELSE c

g_array_sort_with_data(c) ==
  IF c.array.len > 0
  THEN [c EXCEPT !.array.data = g_sort_array(c.array.data, c.array.len)]
  ELSE c

\* GByteArray: GArray with elt_size 1, not zero-terminated, not cleared
g_byte_array_new == g_array_sized_new(FALSE, FALSE, 1, 0, Junk)

g_byte_array_sized_new(reserved_size, fill) ==
  g_array_sized_new(FALSE, FALSE, 1, reserved_size, fill)

g_byte_array_new_take(data, len) ==
  [g_byte_array_new EXCEPT !.array.data = data, !.array.len = len,
                           !.array.elt_capacity = len]

g_byte_array_remove_range(c, index_, length) ==
  IF ~(index_ <= c.array.len) \/ ~(index_ <= G_MAXUINT - length)
     \/ ~(U(index_ + length) <= c.array.len)
  THEN g_return_val_if_fail(c)
  ELSE g_array_remove_range(c, index_, length)

\* --------------------------------------------------------------- GPtrArray
PCtx(r) == [rarray |-> r, trace |-> <<>>, oob |-> FALSE, fatal |-> FALSE,
            critical |-> FALSE, freed |-> FALSE, ret |-> RetVoid,
            reallocs |-> 0]

\* rarray->pdata[i] = v
pdata_set(c, i, v) ==
  [c EXCEPT !.rarray.pdata = Store(c.rarray.pdata, i, <<v>>),
            !.oob = @ \/ ~InBlock(c.rarray.pdata, i, 1)]

\* memcpy (rarray->pdata + pos, vals, n * sizeof (gpointer))
pdata_memcpy(c, pos, vals) ==
  [c EXCEPT !.rarray.pdata = Store(c.rarray.pdata, pos, vals),
            !.oob = @ \/ ~InBlock(c.rarray.pdata, pos, Len(vals))]

\* memmove (rarray->pdata + dst, rarray->pdata + src, n * sizeof (gpointer))
pdata_memmove(c, dst, src, n) ==
  [c EXCEPT !.rarray.pdata = Store(c.rarray.pdata, dst, Load(c.rarray.pdata, src, n)),
            !.oob = @ \/ ~InBlock(c.rarray.pdata, src, n)
                      \/ ~InBlock(c.rarray.pdata, dst, n)]

ptr_array_maybe_null_terminate(c) ==
  IF c.rarray.null_terminated = 1 THEN pdata_set(c, c.rarray.len, 0) ELSE c

\* g_ptr_array_maybe_expand without the overflow check
g_ptr_array_maybe_expand_unguarded(c, len, fill) ==
  LET r == c.rarray
      want_len == U(r.len + len + r.null_terminated)
      want_alloc == MAX(g_nearest_pow(SIZEOF_GPOINTER * want_len), MIN_ARRAY_SIZE)
      new_alloc == MIN(want_alloc \div SIZEOF_GPOINTER, G_MAXUINT)
      grown == [c EXCEPT !.rarray.alloc = new_alloc,
                         !.rarray.pdata = g_realloc(r.pdata, want_alloc \div SIZEOF_GPOINTER, fill),
                         !.reallocs = @ + 1]
  IN IF want_len > r.alloc
     THEN IF g_mem_gc_friendly
          THEN pdata_memcpy(grown, r.alloc, Zeros(new_alloc - r.alloc))
          ELSE grown
     ELSE c

g_ptr_array_maybe_expand(c, len, fill) ==
  LET r == c.rarray
      max_len == U(MIN((G_MAXSIZE \div 2) \div SIZEOF_GPOINTER, G_MAXUINT)
                   - r.null_terminated)
      want_len == U(r.len + len + r.null_terminated)
      want_alloc == MAX(g_nearest_pow(SIZEOF_GPOINTER * want_len), MIN_ARRAY_SIZE)
      new_alloc == MIN(want_alloc \div SIZEOF_GPOINTER, G_MAXUINT)
      grown == [c EXCEPT !.rarray.alloc = new_alloc,
                         !.rarray.pdata = g_realloc(r.pdata, want_alloc \div SIZEOF_GPOINTER, fill),
                         !.reallocs = @ + 1]
  IN IF U(max_len - r.len) < len
     THEN [c EXCEPT !.fatal = TRUE]
     ELSE IF want_len > r.alloc
          THEN IF g_mem_gc_friendly
               THEN pdata_memcpy(grown, r.alloc, Zeros(new_alloc - r.alloc))
               ELSE grown
          ELSE c

\* ptr_array_new that allocates for the terminator alone, as g_array_sized_new does
ptr_array_new_terminated(reserved_size, element_free_func, null_terminated, fill) ==
  LET r == [pdata |-> NULL, len |-> 0, alloc |-> 0,
            null_terminated |-> IF null_terminated THEN 1 ELSE 0,
            element_free_func |-> element_free_func, ref_count |-> 1]
      e == g_ptr_array_maybe_expand(PCtx(r), reserved_size, fill)
  IN IF reserved_size # 0 \/ null_terminated
     THEN IF e.fatal THEN e
          ELSE IF null_terminated THEN pdata_set(e, 0, 0) ELSE e
     ELSE PCtx(r)

ptr_array_new(reserved_size, element_free_func, null_terminated, fill) ==
  LET r == [pdata |-> NULL, len |-> 0, alloc |-> 0,
            null_terminated |-> IF null_terminated THEN 1 ELSE 0,
            element_free_func |-> element_free_func, ref_count |-> 1]
      e == g_ptr_array_maybe_expand(PCtx(r), reserved_size, fill)
  IN IF reserved_size # 0
     THEN IF e.fatal THEN e
          ELSE IF null_terminated THEN pdata_set(e, 0, 0) ELSE e
     ELSE PCtx(r)

g_ptr_array_new == ptr_array_new(0, FALSE, FALSE, Junk)

g_ptr_array_sized_new(reserved_size, fill) ==
  ptr_array_new(reserved_size, FALSE, FALSE, fill)

g_ptr_array_new_with_free_func(element_free_func) ==
  ptr_array_new(0, element_free_func, FALSE, Junk)

g_ptr_array_new_full(reserved_size, element_free_func, fill) ==
  ptr_array_new(reserved_size, element_free_func, FALSE, fill)

g_ptr_array_new_null_terminated(reserved_size, element_free_func, null_terminated, fill) ==
  ptr_array_new(reserved_size, element_free_func, null_terminated, fill)

g_ptr_array_new_take(data, len, element_free_func) ==
  LET c == ptr_array_new(0, element_free_func, FALSE, Junk)
  IN [c EXCEPT !.rarray.pdata = data, !.rarray.len = len, !.rarray.alloc = len]

g_ptr_array_new_take_null_terminated(data, element_free_func) ==
  LET len == IF data.null THEN 0 ELSE first_zero(data, 0)
      c == g_ptr_array_new_take(data, len, element_free_func)
      z == [c EXCEPT !.rarray.null_terminated = 1]
  IN IF ~z.rarray.pdata.null THEN [z EXCEPT !.rarray.alloc = len + 1] ELSE z

\* copy_func == NULL
ptr_array_new_from_array(data, len, element_free_func, null_terminated, fill) ==
  LET c == ptr_array_new(len, element_free_func, null_terminated, fill)
      w == IF len # 0 THEN pdata_memcpy(c, 0, Load(data, 0, len)) ELSE c
      z == IF null_terminated /\ ~w.rarray.pdata.null THEN pdata_set(w, len, 0) ELSE w
  IN IF c.fatal THEN c ELSE [z EXCEPT !.rarray.len = len]

\* g_ptr_array_steal that leaves the pointers in the array as well
g_ptr_array_steal_shared(c) ==
  [c EXCEPT !.ret = RetSeg(c.rarray.pdata, c.rarray.len)]

g_ptr_array_steal(c) ==
  [c EXCEPT !.ret = RetSeg(c.rarray.pdata, c.rarray.len),
            !.rarray.pdata = NULL, !.rarray.len = 0, !.rarray.alloc = 0]

\* func == NULL
g_ptr_array_copy(c, fill) ==
  LET r == c.rarray
      n == ptr_array_new(0, r.element_free_func, r.null_terminated = 1, fill)
      e == g_ptr_array_maybe_expand(n, r.len, fill)
      w == IF r.len > 0
           THEN [pdata_memcpy(e, 0, Load(r.pdata, 0, r.len)) EXCEPT !.rarray.len = r.len]
           ELSE e
  IN IF r.alloc > 0
     THEN IF e.fatal THEN e ELSE ptr_array_maybe_null_terminate(w)
     ELSE n

g_ptr_array_set_free_func(c, element_free_func) ==
  [c EXCEPT !.rarray.element_free_func = element_free_func]

g_ptr_array_ref(c) ==
  [c EXCEPT !.rarray.ref_count = g_atomic_ref_count_inc(@), !.ret = RetSelf]

\* the element_free_func calls on block p, i = from .. to-1
RECURSIVE free_each(_, _, _, _)
free_each(c, p, from, to) ==
  IF from >= to THEN c
  ELSE free_each([c EXCEPT !.trace = Append(@, [element_free_func |-> Load(p, from, 1)[1]]),
                           !.oob = @ \/ ~InBlock(p, from, 1)],
                 p, from + 1, to)

\* ptr_array_free that keeps alloc when it preserves the wrapper
ptr_array_free_keeping_alloc(c, flags) ==
  LET r == c.rarray
      stolen_pdata == r.pdata
      s == [c EXCEPT !.rarray.pdata = NULL]
      f == IF r.element_free_func THEN free_each(s, stolen_pdata, 0, r.len) ELSE s
      seg == IF FREE_SEGMENT \in flags
             THEN [f EXCEPT !.trace = Append(@, [g_free |-> stolen_pdata]),
                            !.ret = RetPtr(NULL)]
             ELSE IF r.pdata.null /\ r.null_terminated = 1
                  THEN [c EXCEPT !.ret = RetPtr(Block(<<0>>))]
                  ELSE [c EXCEPT !.ret = RetPtr(r.pdata)]
  IN IF PRESERVE_WRAPPER \in flags
     THEN [seg EXCEPT !.rarray.pdata = NULL, !.rarray.len = 0]
     ELSE [seg EXCEPT !.freed = TRUE]

\* ptr_array_free that hands out pdata as it is, NULL included
ptr_array_free_unallocated(c, flags) ==
  LET r == c.rarray
      stolen_pdata == r.pdata
      s == [c EXCEPT !.rarray.pdata = NULL]
      f == IF r.element_free_func THEN free_each(s, stolen_pdata, 0, r.len) ELSE s
      seg == IF FREE_SEGMENT \in flags
             THEN [f EXCEPT !.trace = Append(@, [g_free |-> stolen_pdata]),
                            !.ret = RetPtr(NULL)]
             ELSE [c EXCEPT !.ret = RetPtr(r.pdata)]
  IN IF PRESERVE_WRAPPER \in flags
     THEN [seg EXCEPT !.rarray.pdata = NULL, !.rarray.len = 0, !.rarray.alloc = 0]
     ELSE [seg EXCEPT !.freed = TRUE]

ptr_array_free(c, flags) ==
  LET r == c.rarray
      stolen_pdata == r.pdata
      s == [c EXCEPT !.rarray.pdata = NULL]
      f == IF r.element_free_func THEN free_each(s, stolen_pdata, 0, r.len) ELSE s
      seg == IF FREE_SEGMENT \in flags
             THEN [f EXCEPT !.trace = Append(@, [g_free |-> stolen_pdata]),
                            !.ret = RetPtr(NULL)]
             ELSE IF r.pdata.null /\ r.null_terminated = 1
                  THEN [c EXCEPT !.ret = RetPtr(Block(<<0>>))]
                  ELSE [c EXCEPT !.ret = RetPtr(r.pdata)]
  IN IF PRESERVE_WRAPPER \in flags
     THEN [seg EXCEPT !.rarray.pdata = NULL, !.rarray.len = 0, !.rarray.alloc = 0]
     ELSE [seg EXCEPT !.freed = TRUE]

g_ptr_array_unref(c) ==
  LET d == [c EXCEPT !.rarray.ref_count = g_atomic_ref_count_dec(@)]
  IN IF d.rarray.ref_count = 0
     THEN [ptr_array_free(d, {FREE_SEGMENT}) EXCEPT !.ret = RetVoid]
     ELSE d

g_ptr_array_free(c, free_segment) ==
  LET d == [c EXCEPT !.rarray.ref_count = g_atomic_ref_count_dec(@)]
      flags == (IF free_segment THEN {FREE_SEGMENT} ELSE {})
               \cup (IF d.rarray.ref_count # 0 THEN {PRESERVE_WRAPPER} ELSE {})
  IN ptr_array_free(d, flags)

\* g_return_if_fail (rarray->len == 0 || (rarray->len != 0 && rarray->pdata != NULL))
pdata_ok(r) == r.len = 0 \/ (r.len # 0 /\ ~r.pdata.null)

g_ptr_array_remove_range(c, index_, length) ==
  LET r == c.rarray
      d == IF r.element_free_func
           THEN free_each(c, r.pdata, index_, index_ + length) ELSE c
      m == IF U(index_ + length) # r.len
           THEN pdata_memmove(d, index_, index_ + length, r.len - (index_ + length))
           ELSE d
      l == [m EXCEPT !.rarray.len = U(@ - length)]
      z == IF g_mem_gc_friendly THEN pdata_memcpy(l, l.rarray.len, Zeros(length))
           ELSE ptr_array_maybe_null_terminate(l)
  IN IF ~pdata_ok(r) \/ ~(index_ <= r.len) \/ ~(index_ <= G_MAXUINT - length)
        \/ ~(length = 0 \/ U(index_ + length) <= r.len)
     THEN g_return_val_if_fail(c)
     ELSE IF length = 0 THEN [c EXCEPT !.ret = RetSelf]
     ELSE [z EXCEPT !.ret = RetSelf]

g_ptr_array_set_size(c, length, fill) ==
  LET r == c.rarray
      e == g_ptr_array_maybe_expand(c, length - r.len, fill)
      n == pdata_memcpy(e, r.len, Zeros(length - r.len))
      g == ptr_array_maybe_null_terminate([n EXCEPT !.rarray.len = length])
      s == g_ptr_array_remove_range(c, length, r.len - length)
  IN IF ~pdata_ok(r) \/ ~(length >= 0)
     THEN [c EXCEPT !.critical = TRUE]
     ELSE IF length > r.len THEN (IF e.fatal THEN e ELSE g)
     ELSE IF length < r.len THEN [s EXCEPT !.ret = RetVoid]
     ELSE c

ptr_array_remove_index(c, index_, fast, free_element) ==
  LET r == c.rarray
      result == Load(r.pdata, index_, 1)[1]
      d == IF r.element_free_func /\ free_element
           THEN [c EXCEPT !.trace = Append(@, [element_free_func |-> result])]
           ELSE c
      m == IF index_ # U(r.len - 1) /\ ~fast
           THEN pdata_memmove(d, index_, index_ + 1, r.len - index_ - 1)
           ELSE IF index_ # U(r.len - 1)
                THEN pdata_set(d, index_, Load(r.pdata, r.len - 1, 1)[1])
                ELSE d
      l == [m EXCEPT !.rarray.len = U(@ - 1)]
      z == IF r.null_terminated = 1 \/ g_mem_gc_friendly
           THEN pdata_set(l, l.rarray.len, 0) ELSE l
  IN IF ~pdata_ok(r) \/ ~(index_ < r.len) THEN g_return_val_if_fail(c)
     ELSE [z EXCEPT !.ret = RetElem(result)]

g_ptr_array_remove_index(c, index_) == ptr_array_remove_index(c, index_, FALSE, TRUE)
g_ptr_array_remove_index_fast(c, index_) == ptr_array_remove_index(c, index_, TRUE, TRUE)
g_ptr_array_steal_index(c, index_) == ptr_array_remove_index(c, index_, FALSE, FALSE)
g_ptr_array_steal_index_fast(c, index_) == ptr_array_remove_index(c, index_, TRUE, FALSE)

\* for (i = 0; i < array->len; i += 1) if (array->pdata[i] == data): the first
\* such i from i on, or len
RECURSIVE pdata_find(_, _, _)
pdata_find(r, data, i) ==
  IF i >= r.len \/ Load(r.pdata, i, 1) = <<data>> THEN i ELSE pdata_find(r, data, i + 1)

\* the same loop run from the end of the array
RECURSIVE pdata_find_last(_, _, _)
pdata_find_last(r, data, i) ==
  IF i = 0 THEN r.len
  ELSE IF Load(r.pdata, i - 1, 1) = <<data>> THEN i - 1
  ELSE pdata_find_last(r, data, i - 1)

\* g_ptr_array_remove that removes the last occurrence
g_ptr_array_remove_from_end(c, data) ==
  LET i == pdata_find_last(c.rarray, data, c.rarray.len)
  IN IF ~pdata_ok(c.rarray) THEN [c EXCEPT !.critical = TRUE, !.ret = RetBool(FALSE)]
     ELSE IF i < c.rarray.len
          THEN [g_ptr_array_remove_index(c, i) EXCEPT !.ret = RetBool(TRUE)]
          ELSE [c EXCEPT !.ret = RetBool(FALSE)]

g_ptr_array_remove(c, data) ==
  LET i == pdata_find(c.rarray, data, 0)
  IN IF ~pdata_ok(c.rarray) THEN [c EXCEPT !.critical = TRUE, !.ret = RetBool(FALSE)]
     ELSE IF i < c.rarray.len
          THEN [g_ptr_array_remove_index(c, i) EXCEPT !.ret = RetBool(TRUE)]
          ELSE [c EXCEPT !.ret = RetBool(FALSE)]

g_ptr_array_remove_fast(c, data) ==
  LET i == pdata_find(c.rarray, data, 0)
  IN IF ~pdata_ok(c.rarray) THEN [c EXCEPT !.critical = TRUE, !.ret = RetBool(FALSE)]
     ELSE IF i < c.rarray.len
          THEN [g_ptr_array_remove_index_fast(c, i) EXCEPT !.ret = RetBool(TRUE)]
          ELSE [c EXCEPT !.ret = RetBool(FALSE)]

g_ptr_array_add(c, data, fill) ==
  LET e == g_ptr_array_maybe_expand(c, 1, fill)
      w == pdata_set(e, e.rarray.len, data)
  IN IF ~pdata_ok(c.rarray) THEN [c EXCEPT !.critical = TRUE]
     ELSE IF e.fatal THEN e
     ELSE ptr_array_maybe_null_terminate([w EXCEPT !.rarray.len = U(@ + 1)])

g_ptr_array_insert(c, index_, data, fill) ==
  LET r == c.rarray
      e == g_ptr_array_maybe_expand(c, 1, fill)
      real_index == IF index_ >= 0 THEN index_ ELSE r.len
      m == IF real_index < r.len
           THEN pdata_memmove(e, real_index + 1, real_index, r.len - real_index)
           ELSE e
      w == pdata_set([m EXCEPT !.rarray.len = U(@ + 1)], real_index, data)
  IN IF ~(index_ >= -1) \/ ~(index_ < 0 \/ index_ <= r.len)
     THEN [c EXCEPT !.critical = TRUE]
     ELSE IF e.fatal THEN e
     ELSE ptr_array_maybe_null_terminate(w)

\* g_ptr_array_extend with func == NULL; src holds the elements of the other array
g_ptr_array_extend(c, src, fill) ==
  LET e == g_ptr_array_maybe_expand(c, Len(src), fill)
      w == pdata_memcpy(e, e.rarray.len, src)
  IN IF Len(src) = 0 THEN c
     ELSE IF e.fatal THEN e
     ELSE ptr_array_maybe_null_terminate([w EXCEPT !.rarray.len = U(@ + Len(src))])

\* g_ptr_array_extend_and_steal that drops its reference to the other array
\* while that array still holds the pointers
g_ptr_array_extend_and_unref(c, s, fill) ==
  LET e == g_ptr_array_extend(c, Load(s.rarray.pdata, 0, s.rarray.len), fill)
      u == g_ptr_array_unref(s)
  IN IF e.fatal THEN [array_to_extend |-> e, array |-> s]
     ELSE [array_to_extend |-> e, array |-> u]

\* c is the context of array_to_extend, s the context of array
g_ptr_array_extend_and_steal(c, s, fill) ==
  LET e == g_ptr_array_extend(c, Load(s.rarray.pdata, 0, s.rarray.len), fill)
      pdata == s.rarray.pdata
      t == [s EXCEPT !.rarray.pdata = NULL, !.rarray.len = 0, !.rarray.alloc = 0]
      u == g_ptr_array_unref(t)
  IN IF e.fatal THEN [array_to_extend |-> e, array |-> s]
     ELSE [array_to_extend |-> e,
           array |-> [u EXCEPT !.trace = Append(@, [g_free |-> pdata])]]

g_ptr_array_sort(c) ==
  IF c.rarray.len > 0
  THEN [c EXCEPT !.rarray.pdata = g_sort_array(c.rarray.pdata, c.rarray.len)]
  ELSE c

g_ptr_array_sort_with_data(c) ==
  IF c.rarray.len > 0
  THEN [c EXCEPT !.rarray.pdata = g_sort_array(c.rarray.pdata, c.rarray.len)]
  ELSE c

\* compare_ptr_array_values hands the stored pointers to compare_func
g_ptr_array_sort_values(c) == g_ptr_array_sort_with_data(c)

\* ------------------------------------------------------------ state machine
Fills == {0, Junk}                 \* what fresh heap memory may hold
\* the contents to enumerate for a GArray call that adds n elements: the call
\* sees fresh memory only if it reallocates
FreshFor(n) ==
  IF U(array.len + n + array.zero_terminated) > array.elt_capacity
  THEN Fills ELSE {Junk}
Fresh(n) == [i \in 1..n |-> nextId + i - 1]   \* n payloads not used before
Range(q) == {q[i] : i \in DOMAIN q}
Payloads(q) == {x \in Range(q) : x > 0}


NoArray == g_byte_array_new.array
NoPtrArray == ptr_array_new(0, FALSE, FALSE, Junk).rarray

IsGArray == facade \in {"GArray", "GByteArray"} /\ wrapper = "live"
IsGPtrArray == facade = "GPtrArray" /\ wrapper = "live"

\* ---- files: what a name of the directory leads to. A symbolic link leads
\* to a regular file; content and mode are those of the file reached
Absent == [exists |-> FALSE, symlink |-> FALSE, content |-> <<>>, mode |-> "-"]
Regular(content, mode) ==
  [exists |-> TRUE, symlink |-> FALSE, content |-> content, mode |-> mode]
Symlink(content, mode) ==
  [exists |-> TRUE, symlink |-> TRUE, content |-> content, mode |-> mode]

\* taken are the names matching the template of the temporary file that
\* files of others have
NoFiles == [filename |-> Absent, tmp_filename |-> Absent, taken |-> {}]

\* the locals of g_file_set_contents_full before its first call
NoCall == [pc |-> "idle", given |-> {}, flags |-> {}, contents |-> <<>>,
           length |-> 0, mode |-> "-", fds |-> {}, do_fsync |-> FALSE,
           retval |-> FALSE, error |-> "-", log |-> <<>>, eintr |-> 0,
           st |-> [ok |-> FALSE, errno |-> "-", st_size |-> 0],
           XXXXXX |-> -1, count |-> 0, errno |-> "-",
           before |-> Absent, accepted |-> <<>>]

\* no second array yet
NoDonor == [rarray |-> NoPtrArray, wrapper |-> "none"]

Outcome(c) == IF c.fatal THEN "aborted" ELSE IF c.freed THEN "freed" ELSE "live"

\* the array fresh from its constructor: the creating thread, thread 1, holds
\* the only reference; freeing are the threads whose unref took the count to
\* zero and have yet to run array_free, frees the threads that ran it
Threads == 1..NThreads
OneOwner == [held |-> [t \in Threads |-> IF t = 1 THEN 1 ELSE 0],
             freeing |-> {}, frees |-> <<>>]

\* what the call that ended in context c leaves to observe
Outputs(c, fn) ==
  /\ oob' = (oob \/ c.oob)
  /\ trace' = IF observe THEN c.trace ELSE <<>>
  /\ ret' = IF observe THEN c.ret ELSE RetVoid
  /\ critical' = (observe /\ c.critical)
  /\ op' = IF observe THEN fn ELSE "-"
  /\ reallocs' = IF reallocs = Uncounted THEN Uncounted ELSE <<reallocs[1] + c.reallocs>>
  /\ UNCHANGED <<observe, threads>>

\* the state after a GArray call that ended in context c
Done(c, fn) ==
  /\ array' = c.array
  /\ wrapper' = Outcome(c)
  /\ Outputs(c, fn)
  /\ UNCHANGED <<facade, g_mem_gc_friendly, donor, fs, call, others, rarray>>

\* the state after a GPtrArray call that ended in context c
PDone(c, fn) ==
  /\ rarray' = c.rarray
  /\ wrapper' = Outcome(c)
  /\ Outputs(c, fn)
  /\ UNCHANGED <<facade, g_mem_gc_friendly, donor, fs, call, others, array>>

Adds(vals) ==
  /\ nextId' = nextId + Len(vals)
  /\ added' = added \cup Range(vals)
  /\ UNCHANGED removed

Removes(c, gone) ==
  /\ removed' = IF c.critical THEN removed ELSE removed \cup Payloads(gone)
  /\ UNCHANGED <<nextId, added>>

\* the state right after a constructor returned context c for a GArray
StartArray(f, c, given) ==
  /\ facade = f
  /\ array = c.array
  /\ rarray = NoPtrArray
  /\ wrapper = "live" /\ trace = <<>> /\ oob = c.oob /\ ret = RetSelf
  /\ critical = FALSE /\ op = "new" /\ threads = OneOwner /\ donor = NoDonor
  /\ fs = NoFiles /\ call = NoCall /\ others = <<>>
  /\ nextId = Len(given) + 1 /\ added = Range(given) /\ removed = {}

\* the state right after a constructor returned context c for a GPtrArray
StartPtrArray(c, given) ==
  /\ facade = "GPtrArray"
  /\ rarray = c.rarray
  /\ array = NoArray
  /\ wrapper = "live" /\ trace = <<>> /\ oob = c.oob /\ ret = RetSelf
  /\ critical = FALSE /\ op = "new" /\ threads = OneOwner /\ donor = NoDonor
  /\ fs = NoFiles /\ call = NoCall /\ others = <<>>
  /\ nextId = Len(given) + 1 /\ added = Range(given) /\ removed = {}

Given(n) == [i \in 1..n |-> i]

InitGArray ==
  \/ \E zt \in BOOLEAN, cl \in BOOLEAN, es \in EltSizes,
        rs \in ReservedSizes, fill \in Fills :
       StartArray("GArray", g_array_sized_new(zt, cl, es, rs, fill), <<>>)
  \/ \E cl \in BOOLEAN, es \in EltSizes, n \in TakeCounts :
       \/ StartArray("GArray", g_array_new_take(Block(Given(n)), n, cl, es), Given(n))
       \/ StartArray("GArray",
             g_array_new_take_zero_terminated(Block(Given(n) \o <<0>>), cl, es),
             Given(n))
  \/ \E cl \in BOOLEAN, es \in EltSizes :
       \/ StartArray("GArray", g_array_new_take(NULL, 0, cl, es), <<>>)
       \/ StartArray("GArray", g_array_new_take_zero_terminated(NULL, cl, es), <<>>)

InitGByteArray ==
  \/ \E rs \in ReservedSizes, fill \in Fills :
       StartArray("GByteArray", g_byte_array_sized_new(rs, fill), <<>>)
  \/ \E n \in TakeCounts :
       StartArray("GByteArray", g_byte_array_new_take(Block(Given(n)), n), Given(n))
  \/ StartArray("GByteArray", g_byte_array_new_take(NULL, 0), <<>>)

\* ---- GArray / GByteArray calls
ValidIndex == 0..(array.len - 1)
BadIndex == {array.len, G_MAXUINT}

AppendVals(n, fill) ==
  /\ IsGArray /\ nextId + n - 1 <= MaxAdd /\ array.len + n <= MaxLen
  /\ Done(g_array_append_vals(Ctx(array), Fresh(n), fill),
          "g_array_append_vals")
  /\ Adds(Fresh(n))

PrependVals(n, fill) ==
  /\ IsGArray /\ nextId + n - 1 <= MaxAdd /\ array.len + n <= MaxLen
  /\ Done(g_array_prepend_vals(Ctx(array), Fresh(n), fill),
          "g_array_prepend_vals")
  /\ Adds(Fresh(n))

InsertVals(index, n, fill) ==
  /\ facade = "GArray" /\ wrapper = "live" /\ nextId + n - 1 <= MaxAdd
  /\ array.len + n <= MaxLen /\ index + n <= MaxLen
  /\ Done(g_array_insert_vals(Ctx(array), index, Fresh(n), fill),
          "g_array_insert_vals")
  /\ Adds(Fresh(n))

RemoveIndex(index) ==
  /\ IsGArray
  /\ LET c == g_array_remove_index(Ctx(array), index)
     IN /\ Done(c, "g_array_remove_index")
        /\ Removes(c, Load(array.data, index, 1))

RemoveIndexFast(index) ==
  /\ IsGArray
  /\ LET c == g_array_remove_index_fast(Ctx(array), index)
     IN /\ Done(c, "g_array_remove_index_fast")
        /\ Removes(c, Load(array.data, index, 1))

RemoveRange(index, length) ==
  /\ IsGArray
  /\ LET c == IF facade = "GByteArray"
              THEN g_byte_array_remove_range(Ctx(array), index, length)
              ELSE g_array_remove_range(Ctx(array), index, length)
     IN /\ Done(c, "g_array_remove_range")
        /\ Removes(c, Load(array.data, index, length))

SetSize(length, fill) ==
  /\ IsGArray
  /\ LET c == g_array_set_size(Ctx(array), length, fill)
     IN /\ Done(c, "g_array_set_size")
        /\ Removes(c, Load(array.data, length, array.len - length))

Steal ==
  /\ IsGArray
  /\ Done(g_array_steal(Ctx(array)), "g_array_steal")
  /\ Removes(Ctx(array), Load(array.data, 0, array.len))

SetClearFunc(f) ==
  /\ facade = "GArray" /\ wrapper = "live"
  /\ Done(g_array_set_clear_func(Ctx(array), f), "g_array_set_clear_func")
  /\ UNCHANGED <<nextId, added, removed>>

Ref ==
  /\ IsGArray /\ array.ref_count < MaxRef
  /\ Done(g_array_ref(Ctx(array)), "g_array_ref")
  /\ UNCHANGED <<nextId, added, removed>>

Unref ==
  /\ IsGArray
  /\ Done(g_array_unref(Ctx(array)), "g_array_unref")
  /\ UNCHANGED <<nextId, added, removed>>

Free(free_segment) ==
  /\ IsGArray
  /\ Done(g_array_free(Ctx(array), free_segment),
          "g_array_free")
  /\ Removes(Ctx(array), Load(array.data, 0, array.len))

\* g_array_copy: the copy becomes the array in use
Copy(fill) ==
  /\ facade = "GArray" /\ wrapper = "live"
  /\ Done(g_array_copy(Ctx(array), fill), "g_array_copy")
  /\ UNCHANGED <<nextId, added, removed>>

\* arguments of remove_range: every call that meets the preconditions, and
\* calls that break each of them
RangeArgs ==
  {p \in (0..array.len) \X (0..(array.len + 1)) : p[1] + p[2] <= array.len + 1}
    \cup {<<array.len + 1, 0>>, <<1, G_MAXUINT>>, <<G_MAXUINT, 1>>}

\* the calls that add elements, and the destructor registration
GArrayAdds ==
  \/ \E n \in Counts : \E fill \in FreshFor(n) : AppendVals(n, fill)
  \/ \E n \in Counts : \E fill \in FreshFor(n) : PrependVals(n, fill)
  \/ \E index \in 0..MaxLen, n \in Counts :
       \E fill \in FreshFor(IF index > array.len THEN index - array.len + n ELSE n) :
          InsertVals(index, n, fill)
  \/ \E f \in BOOLEAN : SetClearFunc(f)

GArrayRemoves ==
  \/ \E index \in ValidIndex \cup BadIndex : RemoveIndex(index)
  \/ \E index \in ValidIndex \cup BadIndex : RemoveIndexFast(index)
  \/ \E p \in RangeArgs : RemoveRange(p[1], p[2])

GArrayResize ==
  \E length \in 0..MaxLen :
     \E fill \in FreshFor(IF length > array.len THEN length - array.len ELSE 0) :
        SetSize(length, fill)

GArrayShare == Ref \/ Unref \/ Steal

NextGArray ==
  \/ GArrayAdds
  \/ GArrayRemoves
  \/ GArrayResize
  \/ GArrayShare
  \/ \E free_segment \in BOOLEAN : Free(free_segment)
  \/ \E fill \in Fills : Copy(fill)

InitGPtrArray ==
  \/ \E rs \in ReservedSizes, f \in BOOLEAN, nt \in BOOLEAN, fill \in Fills :
       StartPtrArray(ptr_array_new(rs, f, nt, fill), <<>>)
  \/ \E f \in BOOLEAN, n \in TakeCounts :
       \/ StartPtrArray(g_ptr_array_new_take(Block(Given(n)), n, f), Given(n))
       \/ StartPtrArray(
             g_ptr_array_new_take_null_terminated(Block(Given(n) \o <<0>>), f),
             Given(n))
  \/ \E f \in BOOLEAN :
       \/ StartPtrArray(g_ptr_array_new_take(NULL, 0, f), <<>>)
       \/ StartPtrArray(g_ptr_array_new_take_null_terminated(NULL, f), <<>>)
  \/ \E f \in BOOLEAN, nt \in BOOLEAN, n \in TakeCounts, fill \in Fills :
       StartPtrArray(ptr_array_new_from_array(Block(Given(n)), n, f, nt, fill), Given(n))

\* ---- GPtrArray calls
PValidIndex == 0..(rarray.len - 1)
PBadIndex == {rarray.len, G_MAXUINT}

PFreshFor(n) ==
  IF U(rarray.len + n + rarray.null_terminated) > rarray.alloc THEN Fills ELSE {Junk}

PRangeArgs ==
  {p \in (0..rarray.len) \X (0..(rarray.len + 1)) : p[1] + p[2] <= rarray.len + 1}
    \cup {<<rarray.len + 1, 0>>, <<1, G_MAXUINT>>, <<G_MAXUINT, 1>>}

PtrAdd(fill) ==
  /\ IsGPtrArray /\ nextId <= MaxAdd /\ rarray.len + 1 <= MaxLen
  /\ PDone(g_ptr_array_add(PCtx(rarray), nextId, fill), "g_ptr_array_add")
  /\ Adds(Fresh(1))

PtrInsert(index, fill) ==
  /\ IsGPtrArray /\ nextId <= MaxAdd /\ rarray.len + 1 <= MaxLen
  /\ LET c == g_ptr_array_insert(PCtx(rarray), index, nextId, fill)
     IN /\ PDone(c, "g_ptr_array_insert")
        /\ IF c.critical THEN UNCHANGED <<nextId, added, removed>> ELSE Adds(Fresh(1))

PtrExtend(n, fill) ==
  /\ IsGPtrArray /\ nextId + n - 1 <= MaxAdd /\ rarray.len + n <= MaxLen
  /\ PDone(g_ptr_array_extend(PCtx(rarray), Fresh(n), fill), "g_ptr_array_extend")
  /\ Adds(Fresh(n))

PtrRemoveIndex(index) ==
  /\ IsGPtrArray
  /\ LET c == g_ptr_array_remove_index(PCtx(rarray), index)
     IN /\ PDone(c, "g_ptr_array_remove_index")
        /\ Removes(c, Load(rarray.pdata, index, 1))

PtrRemoveIndexFast(index) ==
  /\ IsGPtrArray
  /\ LET c == g_ptr_array_remove_index_fast(PCtx(rarray), index)
     IN /\ PDone(c, "g_ptr_array_remove_index_fast")
        /\ Removes(c, Load(rarray.pdata, index, 1))

PtrStealIndex(index) ==
  /\ IsGPtrArray
  /\ LET c == g_ptr_array_steal_index(PCtx(rarray), index)
     IN /\ PDone(c, "g_ptr_array_steal_index")
        /\ Removes(c, Load(rarray.pdata, index, 1))

PtrStealIndexFast(index) ==
  /\ IsGPtrArray
  /\ LET c == g_ptr_array_steal_index_fast(PCtx(rarray), index)
     IN /\ PDone(c, "g_ptr_array_steal_index_fast")
        /\ Removes(c, Load(rarray.pdata, index, 1))

PtrRemoveRange(index, length) ==
  /\ IsGPtrArray
  /\ LET c == g_ptr_array_remove_range(PCtx(rarray), index, length)
     IN /\ PDone(c, "g_ptr_array_remove_range")
        /\ Removes(c, Load(rarray.pdata, index, length))

PtrSetSize(length, fill) ==
  /\ IsGPtrArray
  /\ LET c == g_ptr_array_set_size(PCtx(rarray), length, fill)
     IN /\ PDone(c, "g_ptr_array_set_size")
        /\ Removes(c, Load(rarray.pdata, length, rarray.len - length))

PtrSteal ==
  /\ IsGPtrArray
  /\ PDone(g_ptr_array_steal(PCtx(rarray)), "g_ptr_array_steal")
  /\ Removes(PCtx(rarray), Load(rarray.pdata, 0, rarray.len))

PtrSetFreeFunc(f) ==
  /\ IsGPtrArray
  /\ PDone(g_ptr_array_set_free_func(PCtx(rarray), f), "g_ptr_array_set_free_func")
  /\ UNCHANGED <<nextId, added, removed>>

PtrRef ==
  /\ IsGPtrArray /\ rarray.ref_count < MaxRef
  /\ PDone(g_ptr_array_ref(PCtx(rarray)), "g_ptr_array_ref")
  /\ UNCHANGED <<nextId, added, removed>>

PtrUnref ==
  /\ IsGPtrArray
  /\ PDone(g_ptr_array_unref(PCtx(rarray)), "g_ptr_array_unref")
  /\ UNCHANGED <<nextId, added, removed>>

PtrFree(free_segment) ==
  /\ IsGPtrArray
  /\ PDone(g_ptr_array_free(PCtx(rarray), free_segment), "g_ptr_array_free")
  /\ Removes(PCtx(rarray), Load(rarray.pdata, 0, rarray.len))

\* g_ptr_array_copy: the copy becomes the array in use
PtrCopy(fill) ==
  /\ IsGPtrArray
  /\ PDone(g_ptr_array_copy(PCtx(rarray), fill), "g_ptr_array_copy")
  /\ UNCHANGED <<nextId, added, removed>>

GPtrArrayAdds ==
  \/ \E fill \in PFreshFor(1) : PtrAdd(fill)
  \/ \E index \in (-2)..(rarray.len + 1) : \E fill \in PFreshFor(1) : PtrInsert(index, fill)
  \/ \E n \in Counts : \E fill \in PFreshFor(n) : PtrExtend(n, fill)
  \/ \E f \in BOOLEAN : PtrSetFreeFunc(f)

GPtrArrayRemoves ==
  \/ \E index \in PValidIndex \cup PBadIndex : PtrRemoveIndex(index)
  \/ \E index \in PValidIndex \cup PBadIndex : PtrRemoveIndexFast(index)
  \/ \E index \in PValidIndex \cup PBadIndex : PtrStealIndex(index)
  \/ \E index \in PValidIndex \cup PBadIndex : PtrStealIndexFast(index)
  \/ \E p \in PRangeArgs : PtrRemoveRange(p[1], p[2])

GPtrArrayResize ==
  \E length \in (-1)..MaxLen :
     \E fill \in PFreshFor(IF length > rarray.len THEN length - rarray.len ELSE 0) :
        PtrSetSize(length, fill)

GPtrArrayShare == PtrRef \/ PtrUnref \/ PtrSteal

NextGPtrArray ==
  \/ GPtrArrayAdds
  \/ GPtrArrayRemoves
  \/ GPtrArrayResize
  \/ GPtrArrayShare
  \/ \E free_segment \in BOOLEAN : PtrFree(free_segment)
  \/ \E fill \in Fills : PtrCopy(fill)

\* every way an array comes out of its constructor
Construct ==
  \E gc \in BOOLEAN :
     g_mem_gc_friendly = gc /\ (InitGArray \/ InitGByteArray \/ InitGPtrArray)

Init == observe = FALSE /\ reallocs = Uncounted /\ Construct
Next == NextGArray \/ NextGPtrArray
Spec == Init /\ [][Next]_vars

\* the same arrays with the outputs of each call recorded
InitObserved == observe = TRUE /\ reallocs = Uncounted /\ Construct

\* adding and removing elements
NextRemove == GArrayAdds \/ GArrayRemoves \/ GPtrArrayAdds \/ GPtrArrayRemoves
SpecRemove == InitObserved /\ [][NextRemove]_vars

\* adding elements and setting the size
NextResize == GArrayAdds \/ GArrayResize \/ GPtrArrayAdds \/ GPtrArrayResize
SpecResize == InitObserved /\ [][NextResize]_vars

\* adding elements, sharing the array and stealing its data
NextShare == GArrayAdds \/ GArrayShare \/ GPtrArrayAdds \/ GPtrArrayShare
SpecShare == InitObserved /\ [][NextShare]_vars

\* calls on a GArray that add and remove elements and meet their preconditions
ValidRangeArgs ==
  {p \in (0..array.len) \X (0..array.len) : p[1] + p[2] <= array.len}

InitEdit ==
  /\ observe = FALSE /\ reallocs = Uncounted
  /\ \E gc \in BOOLEAN : g_mem_gc_friendly = gc /\ (InitGArray \/ InitGByteArray)

EditAppend(n, fill) ==
  /\ IsGArray /\ nextId + n - 1 <= MaxEdit
  /\ Done(g_array_append_vals(Ctx(array), Fresh(n), fill), "g_array_append_vals")
  /\ Adds(Fresh(n))

EditPrepend(n, fill) ==
  /\ IsGArray /\ nextId + n - 1 <= MaxEdit
  /\ Done(g_array_prepend_vals(Ctx(array), Fresh(n), fill), "g_array_prepend_vals")
  /\ Adds(Fresh(n))

EditInsert(index, n, fill) ==
  /\ facade = "GArray" /\ wrapper = "live" /\ nextId + n - 1 <= MaxEdit
  /\ Done(g_array_insert_vals(Ctx(array), index, Fresh(n), fill),
          "g_array_insert_vals")
  /\ Adds(Fresh(n))

NextEdit ==
  \/ \E n \in Counts : \E fill \in FreshFor(n) : EditAppend(n, fill)
  \/ \E n \in Counts : \E fill \in FreshFor(n) : EditPrepend(n, fill)
  \/ \E index \in 0..array.len, n \in Counts : \E fill \in FreshFor(n) :
        EditInsert(index, n, fill)
  \/ \E index \in ValidIndex : RemoveIndex(index)
  \/ \E index \in ValidIndex : RemoveIndexFast(index)
  \/ \E p \in ValidRangeArgs : RemoveRange(p[1], p[2])

SpecEdit == InitEdit /\ [][NextEdit]_vars

\* an array of 4-byte elements created with no reserved size, then appended
\* to one element at a time
InitAppend ==
  /\ observe = FALSE
  /\ \E gc \in BOOLEAN, zt \in BOOLEAN, cl \in BOOLEAN, fill \in Fills :
        /\ g_mem_gc_friendly = gc
        /\ StartArray("GArray", g_array_sized_new(zt, cl, 4, 0, fill), <<>>)
        /\ reallocs = <<g_array_sized_new(zt, cl, 4, 0, fill).reallocs>>

AppendOne(fill) ==
  /\ IsGArray /\ array.len < MaxAppend
  /\ Done(g_array_append_vals(Ctx(array), Fresh(1), fill), "g_array_append_vals")
  /\ Adds(Fresh(1))

NextAppend == \E fill \in FreshFor(1) : AppendOne(fill)

SpecAppend == InitAppend /\ [][NextAppend]_vars

\* ---- several threads sharing the array through its reference count.  A
\* thread acts only on a reference it holds.  The atomic increment and
\* decrement are one step each; array_free is a later step of the thread whose
\* decrement reached zero.
RefCount == IF facade = "GPtrArray" THEN rarray.ref_count ELSE array.ref_count

\* the structures after thread t's call left context c (a GArray context has
\* the field array, a GPtrArray context the field rarray)
Shared(c) ==
  IF facade = "GPtrArray"
  THEN rarray' = c.rarray /\ UNCHANGED array
  ELSE array' = c.array /\ UNCHANGED rarray

ThreadRef(t) ==
  /\ threads.held[t] > 0 /\ RefCount < MaxRef
  /\ Shared(IF facade = "GPtrArray" THEN g_ptr_array_ref(PCtx(rarray))
            ELSE g_array_ref(Ctx(array)))
  /\ threads' = [threads EXCEPT !.held[t] = @ + 1]
  /\ UNCHANGED <<facade, g_mem_gc_friendly, donor, fs, call, others, wrapper, trace, oob, ret, critical,
                 op, observe, reallocs, nextId, added, removed>>

\* thread t hands one of its references to thread u
ThreadGive(t, u) ==
  /\ threads.held[t] > 0 /\ t # u
  /\ threads' = [threads EXCEPT !.held[t] = @ - 1, !.held[u] = @ + 1]
  /\ UNCHANGED <<facade, g_mem_gc_friendly, donor, fs, call, others, array, rarray, wrapper, trace, oob,
                 ret, critical, op, observe, reallocs, nextId, added, removed>>

\* the g_atomic_ref_count_dec of g_array_unref / g_ptr_array_unref
ThreadUnref(t) ==
  /\ threads.held[t] > 0
  /\ LET c == IF facade = "GPtrArray" THEN g_ptr_array_unref(PCtx(rarray))
              ELSE g_array_unref(Ctx(array))
     IN /\ IF facade = "GPtrArray"
           THEN rarray' = [rarray EXCEPT !.ref_count = c.rarray.ref_count]
                /\ UNCHANGED array
           ELSE array' = [array EXCEPT !.ref_count = c.array.ref_count]
                /\ UNCHANGED rarray
        /\ threads' = [threads EXCEPT
                         !.held[t] = @ - 1,
                         !.freeing = IF c.freed THEN @ \cup {t} ELSE @]
  /\ UNCHANGED <<facade, g_mem_gc_friendly, donor, fs, call, others, wrapper, trace, oob, ret, critical,
                 op, observe, reallocs, nextId, added, removed>>

\* the array_free / ptr_array_free of the thread whose decrement reached zero
ThreadFree(t) ==
  /\ t \in threads.freeing
  /\ LET c == IF facade = "GPtrArray" THEN ptr_array_free(PCtx(rarray), {FREE_SEGMENT})
              ELSE array_free(Ctx(array), {FREE_SEGMENT})
     IN /\ Shared(c)
        /\ wrapper' = Outcome(c)
        /\ oob' = (oob \/ c.oob)
  /\ threads' = [threads EXCEPT !.freeing = @ \ {t}, !.frees = Append(@, t)]
  /\ UNCHANGED <<facade, g_mem_gc_friendly, donor, fs, call, others, trace, ret, critical, op, observe, reallocs,
                 nextId, added, removed>>

NextThreads ==
  \/ \E t \in Threads : ThreadRef(t)
  \/ \E t \in Threads, u \in Threads : ThreadGive(t, u)
  \/ \E t \in Threads : ThreadUnref(t)
  \/ \E t \in Threads : ThreadFree(t)

SpecThreads == Init /\ [][NextThreads]_vars

\* ---- searching arrays that are sorted ascending by cmpint
Keys == 1..MaxKey
Sorted(s) == \A i \in DOMAIN s : \A j \in DOMAIN s : i < j => cmpint(s[i], s[j]) <= 0
SortedSeqs ==
  {s \in UNION {[1..n -> Keys] : n \in 0..MaxSearchLen} : Sorted(s)}
Targets == 0..(MaxKey + 1)

InitSearch ==
  /\ observe = TRUE /\ reallocs = Uncounted
  /\ \E gc \in BOOLEAN, cl \in BOOLEAN, es \in EltSizes, s \in SortedSeqs :
        /\ g_mem_gc_friendly = gc
        /\ \/ StartArray("GArray", g_array_new_take(Block(s), Len(s), cl, es), s)
           \/ StartArray("GArray",
                 g_array_new_take_zero_terminated(Block(s \o <<0>>), cl, es), s)

BinarySearch(target) ==
  /\ facade = "GArray" /\ wrapper = "live"
  /\ Done(g_array_binary_search(Ctx(array), target), "g_array_binary_search")
  /\ UNCHANGED <<nextId, added, removed>>

NextSearch == \E target \in Targets : BinarySearch(target)

SpecSearch == InitSearch /\ [][NextSearch]_vars

\* ---- sorting arrays of elements some of which compare equal
Unsorted == UNION {[1..n -> Keys] : n \in 0..MaxSortLen}

InitSort ==
  /\ observe = TRUE /\ reallocs = Uncounted
  /\ \E gc \in BOOLEAN, s \in Unsorted :
        /\ g_mem_gc_friendly = gc
        /\ \/ \E cl \in BOOLEAN, es \in EltSizes :
                \/ StartArray("GArray", g_array_new_take(Block(s), Len(s), cl, es), s)
                \/ StartArray("GArray",
                      g_array_new_take_zero_terminated(Block(s \o <<0>>), cl, es), s)
           \/ \E eff \in BOOLEAN :
                \/ StartPtrArray(g_ptr_array_new_take(Block(s), Len(s), eff), s)
                \/ StartPtrArray(
                      g_ptr_array_new_take_null_terminated(Block(s \o <<0>>), eff), s)

ArraySort ==
  /\ facade = "GArray" /\ wrapper = "live"
  /\ Done(g_array_sort(Ctx(array)), "g_array_sort")
  /\ UNCHANGED <<nextId, added, removed>>

ArraySortWithData ==
  /\ facade = "GArray" /\ wrapper = "live"
  /\ Done(g_array_sort_with_data(Ctx(array)), "g_array_sort_with_data")
  /\ UNCHANGED <<nextId, added, removed>>

PtrSort ==
  /\ IsGPtrArray
  /\ PDone(g_ptr_array_sort(PCtx(rarray)), "g_ptr_array_sort")
  /\ UNCHANGED <<nextId, added, removed>>

PtrSortWithData ==
  /\ IsGPtrArray
  /\ PDone(g_ptr_array_sort_with_data(PCtx(rarray)), "g_ptr_array_sort_with_data")
  /\ UNCHANGED <<nextId, added, removed>>

PtrSortValues ==
  /\ IsGPtrArray
  /\ PDone(g_ptr_array_sort_values(PCtx(rarray)), "g_ptr_array_sort_values")
  /\ UNCHANGED <<nextId, added, removed>>

NextSort ==
  \/ ArraySort
  \/ ArraySortWithData
  \/ PtrSort
  \/ PtrSortWithData
  \/ PtrSortValues

SpecSort == InitSort /\ [][NextSort]_vars

\* ---- growing arrays up to the largest length their element size allows: a
\* fresh array is set to any length a guint can hold, then elements are added
GrowLengths == 0..G_MAXUINT

InitGrow ==
  /\ observe = TRUE /\ reallocs = Uncounted
  /\ \E gc \in BOOLEAN, rs \in ReservedSizes, fill \in Fills :
        /\ g_mem_gc_friendly = gc
        /\ \/ \E zt \in BOOLEAN, cl \in BOOLEAN, es \in GrowEltSizes :
                StartArray("GArray", g_array_sized_new(zt, cl, es, rs, fill), <<>>)
           \/ \E f \in BOOLEAN, nt \in BOOLEAN :
                StartPtrArray(ptr_array_new(rs, f, nt, fill), <<>>)

GrowTo(length, fill) ==
  /\ facade = "GArray" /\ wrapper = "live" /\ op = "new"
  /\ Done(g_array_set_size(Ctx(array), length, fill), "g_array_set_size")
  /\ UNCHANGED <<nextId, added, removed>>

GrowAppend(n, fill) ==
  /\ facade = "GArray" /\ wrapper = "live" /\ nextId + n - 1 <= MaxAdd
  /\ Done(g_array_append_vals(Ctx(array), Fresh(n), fill), "g_array_append_vals")
  /\ Adds(Fresh(n))

PtrGrowTo(length, fill) ==
  /\ IsGPtrArray /\ op = "new"
  /\ PDone(g_ptr_array_set_size(PCtx(rarray), length, fill), "g_ptr_array_set_size")
  /\ UNCHANGED <<nextId, added, removed>>

PtrGrowAdd(fill) ==
  /\ IsGPtrArray /\ nextId <= MaxAdd
  /\ PDone(g_ptr_array_add(PCtx(rarray), nextId, fill), "g_ptr_array_add")
  /\ Adds(Fresh(1))

NextGrow ==
  \/ \E length \in GrowLengths :
       \E fill \in FreshFor(length - array.len) : GrowTo(length, fill)
  \/ \E n \in 1..MaxAdd : \E fill \in FreshFor(n) : GrowAppend(n, fill)
  \/ \E length \in GrowLengths :
       \E fill \in PFreshFor(length - rarray.len) : PtrGrowTo(length, fill)
  \/ \E fill \in PFreshFor(1) : PtrGrowAdd(fill)

SpecGrow == InitGrow /\ [][NextGrow]_vars

\* ---- creating arrays: the state before any constructor was called, and the
\* constructors that take a reserved size or a terminator flag
CreateSizes == 0..(MaxLen + 1)
CreateEltSizes == EltSizes \cup GrowEltSizes

InitCreate ==
  /\ observe = TRUE /\ reallocs = <<0>>
  /\ g_mem_gc_friendly \in BOOLEAN
  /\ facade = "none" /\ wrapper = "none"
  /\ array = NoArray /\ rarray = NoPtrArray
  /\ trace = <<>> /\ oob = FALSE /\ ret = RetVoid /\ critical = FALSE /\ op = "-"
  /\ threads = OneOwner /\ donor = NoDonor
  /\ fs = NoFiles /\ call = NoCall /\ others = <<>>
  /\ nextId = 1 /\ added = {} /\ removed = {}

\* the state after the constructor call of facade f that ended in context c
Created(f, c, fn) ==
  /\ wrapper = "none"
  /\ facade' = f
  /\ IF f = "GPtrArray"
     THEN rarray' = c.rarray /\ UNCHANGED array
     ELSE array' = c.array /\ UNCHANGED rarray
  /\ wrapper' = Outcome(c) /\ oob' = c.oob /\ reallocs' = <<c.reallocs>>
  /\ trace' = <<>> /\ ret' = RetSelf /\ critical' = FALSE /\ op' = fn
  /\ UNCHANGED <<g_mem_gc_friendly, observe, threads, donor, fs, call, others,
                 nextId, added, removed>>

ArrayNew(zt, cl, es) ==
  Created("GArray", g_array_new(zt, cl, es), "g_array_new")
ArraySizedNew(zt, cl, es, rs, fill) ==
  Created("GArray", g_array_sized_new(zt, cl, es, rs, fill), "g_array_sized_new")
ByteArrayNew ==
  Created("GByteArray", g_byte_array_new, "g_byte_array_new")
ByteArraySizedNew(rs, fill) ==
  Created("GByteArray", g_byte_array_sized_new(rs, fill), "g_byte_array_sized_new")
PtrArrayNew ==
  Created("GPtrArray", g_ptr_array_new, "g_ptr_array_new")
PtrArraySizedNew(rs, fill) ==
  Created("GPtrArray", g_ptr_array_sized_new(rs, fill), "g_ptr_array_sized_new")
PtrArrayNewWithFreeFunc(f) ==
  Created("GPtrArray", g_ptr_array_new_with_free_func(f),
          "g_ptr_array_new_with_free_func")
PtrArrayNewFull(rs, f, fill) ==
  Created("GPtrArray", g_ptr_array_new_full(rs, f, fill), "g_ptr_array_new_full")
PtrArrayNewNullTerminated(rs, f, nt, fill) ==
  Created("GPtrArray", g_ptr_array_new_null_terminated(rs, f, nt, fill),
          "g_ptr_array_new_null_terminated")

NextCreate ==
  \/ \E zt \in BOOLEAN, cl \in BOOLEAN, es \in CreateEltSizes : ArrayNew(zt, cl, es)
  \/ \E zt \in BOOLEAN, cl \in BOOLEAN, es \in CreateEltSizes, rs \in CreateSizes,
        fill \in Fills : ArraySizedNew(zt, cl, es, rs, fill)
  \/ ByteArrayNew
  \/ \E rs \in CreateSizes, fill \in Fills : ByteArraySizedNew(rs, fill)
  \/ PtrArrayNew
  \/ \E rs \in CreateSizes, fill \in Fills : PtrArraySizedNew(rs, fill)
  \/ \E f \in BOOLEAN : PtrArrayNewWithFreeFunc(f)
  \/ \E rs \in CreateSizes, f \in BOOLEAN, fill \in Fills : PtrArrayNewFull(rs, f, fill)
  \/ \E rs \in CreateSizes, f \in BOOLEAN, nt \in BOOLEAN, fill \in Fills :
       PtrArrayNewNullTerminated(rs, f, nt, fill)
  \/ \E n \in 1..MaxAdd : \E fill \in FreshFor(n) : GrowAppend(n, fill)
  \/ \E fill \in PFreshFor(1) : PtrGrowAdd(fill)

SpecCreate == InitCreate /\ [][NextCreate]_vars

\* ---- inserting into a GArray at, before and beyond its end
InsertIndexes == 0..MaxInsertAt \cup {G_MAXUINT}

InitInsert ==
  /\ observe = TRUE /\ reallocs = Uncounted
  /\ \E gc \in BOOLEAN : g_mem_gc_friendly = gc /\ InitGArray

\* every array is inserted into once, and again while it has taken no more
\* than MaxAdd elements
InsertAt(index, n, fill) ==
  /\ facade = "GArray" /\ wrapper = "live"
  /\ op = "new" \/ nextId + n - 1 <= MaxAdd
  /\ Done(g_array_insert_vals(Ctx(array), index, Fresh(n), fill),
          "g_array_insert_vals")
  /\ Adds(Fresh(n))

NextInsert ==
  \E index \in InsertIndexes, n \in Counts :
     \E fill \in FreshFor(MAX(index - array.len, 0) + n) : InsertAt(index, n, fill)

SpecInsert == InitInsert /\ [][NextInsert]_vars

\* ---- adding elements, sharing the array, stealing and freeing its data
NextFree ==
  \/ GArrayAdds
  \/ GArrayShare
  \/ \E free_segment \in BOOLEAN : Free(free_segment)
  \/ GPtrArrayAdds
  \/ GPtrArrayShare
  \/ \E free_segment \in BOOLEAN : PtrFree(free_segment)

SpecFree == InitObserved /\ [][NextFree]_vars

\* ---- removing pointers by value from arrays that hold some pointers twice,
\* until two different pointers were taken out
InitFind ==
  /\ observe = TRUE /\ reallocs = Uncounted
  /\ \E gc \in BOOLEAN, s \in Unsorted, eff \in BOOLEAN :
        /\ g_mem_gc_friendly = gc
        /\ \/ StartPtrArray(g_ptr_array_new_take(Block(s), Len(s), eff), s)
           \/ StartPtrArray(
                 g_ptr_array_new_take_null_terminated(Block(s \o <<0>>), eff), s)
           \/ StartPtrArray(g_ptr_array_new_take(NULL, 0, eff), <<>>)

PtrRemove(data) ==
  /\ IsGPtrArray /\ Cardinality(removed) <= 1
  /\ LET c == g_ptr_array_remove(PCtx(rarray), data)
     IN /\ PDone(c, "g_ptr_array_remove")
        /\ Removes(c, IF c.ret = RetBool(TRUE) THEN <<data>> ELSE <<>>)

PtrRemoveFast(data) ==
  /\ IsGPtrArray /\ Cardinality(removed) <= 1
  /\ LET c == g_ptr_array_remove_fast(PCtx(rarray), data)
     IN /\ PDone(c, "g_ptr_array_remove_fast")
        /\ Removes(c, IF c.ret = RetBool(TRUE) THEN <<data>> ELSE <<>>)

NextFind ==
  \/ \E data \in Targets : PtrRemove(data)
  \/ \E data \in Targets : PtrRemoveFast(data)

SpecFind == InitFind /\ [][NextFind]_vars

\* ------------------------------------------------------------- properties
Elements == Load(array.data, 0, array.len)        \* data[0 .. len-1]
PElements == Load(rarray.pdata, 0, rarray.len)    \* pdata[0 .. len-1]

\* C1: whenever the data pointer of a GArray, GByteArray or GPtrArray is not
\* NULL, its capacity is at least len, plus one if the array is zero- or
\* NULL-terminated.
CapacityInvariant ==
  wrapper = "live" =>
    /\ ~array.data.null => array.elt_capacity >= array.len + array.zero_terminated
    /\ ~rarray.pdata.null => rarray.alloc >= rarray.len + rarray.null_terminated

\* a zero-terminated GArray that grew to a full block and lost an element
CapacityTight ==
  /\ facade = "GArray" /\ wrapper = "live" /\ array.zero_terminated = 1
  /\ ~array.data.null /\ array.len >= 1 /\ removed # {}
  /\ array.elt_capacity = array.len + 1

\* C2: in every state of a GArray, GByteArray or GPtrArray the data pointer is
\* NULL only when the capacity is 0.
NullDataHasNoCapacity ==
  wrapper = "live" =>
    /\ array.data.null => array.elt_capacity = 0
    /\ rarray.pdata.null => rarray.alloc = 0

\* a shared GPtrArray that held elements and gave its data away
DataGivenAway ==
  /\ facade = "GPtrArray" /\ wrapper = "live" /\ rarray.ref_count >= 1
  /\ removed # {} /\ rarray.pdata.null /\ rarray.len = 0 /\ rarray.alloc = 0

\* C3: after every append, prepend, insert (index <= len), remove_index,
\* remove_index_fast and remove_range call that meets its preconditions, len is
\* the number of elements added minus the number removed, and the array holds
\* exactly the elements added and not removed, each once, payload unchanged.
EditsAccounted ==
  /\ removed \subseteq added
  /\ array.len = Cardinality(added) - Cardinality(removed)
  /\ Range(Elements) = added \ removed

\* an element was inserted between two others, and the first one then removed
InsertedThenRemoved ==
  /\ wrapper = "live" /\ added = {1, 2, 3} /\ removed = {1} /\ Elements = <<3, 2>>

\* C4: appending up to MaxAppend elements one at a time to an array of 4-byte
\* elements created with no reserved size never accesses an element outside
\* the allocated block, and leaves len equal to the number of elements
\* appended, the elements in the order they were appended.
AppendInBounds ==
  /\ ~oob
  /\ array.len = nextId - 1
  /\ array.len <= array.elt_capacity
  /\ Elements = Given(array.len)

\* all MaxAppend elements were appended
AllAppended ==
  /\ array.elt_size = 4 /\ array.len = MaxAppend
  /\ Elements[1] = 1 /\ Elements[MaxAppend] = MaxAppend

\* s without its element at index i (0-based)
DelAt(s, i) == [j \in 1..(Len(s) - 1) |-> IF j <= i THEN s[j] ELSE s[j + 1]]
\* s with its last element moved to index i (0-based) and the last slot dropped
SwapOut(s, i) == [j \in 1..(Len(s) - 1) |-> IF j = i + 1 THEN s[Len(s)] ELSE s[j]]

PValidRangeArgs ==
  {p \in (0..rarray.len) \X (0..rarray.len) : p[1] + p[2] <= rarray.len}

\* a step of a program that records its calls is the call named in op'
StepRemoveIndex(i) == op' = "g_array_remove_index" /\ RemoveIndex(i)
StepRemoveIndexFast(i) == op' = "g_array_remove_index_fast" /\ RemoveIndexFast(i)
StepRemoveRange(i, n) == op' = "g_array_remove_range" /\ RemoveRange(i, n)
StepPtrRemoveIndex(i) == op' = "g_ptr_array_remove_index" /\ PtrRemoveIndex(i)
StepPtrRemoveIndexFast(i) ==
  op' = "g_ptr_array_remove_index_fast" /\ PtrRemoveIndexFast(i)
StepPtrStealIndex(i) == op' = "g_ptr_array_steal_index" /\ PtrStealIndex(i)
StepPtrStealIndexFast(i) ==
  op' = "g_ptr_array_steal_index_fast" /\ PtrStealIndexFast(i)
StepPtrRemoveRange(i, n) == op' = "g_ptr_array_remove_range" /\ PtrRemoveRange(i, n)

\* C5: removing index i < len with remove_index leaves the old elements
\* without element i, the others in their order; with remove_index_fast it
\* leaves the old elements with the last one moved into slot i (just dropped
\* when i is the last index).  In both cases len decreases by exactly 1.
RemoveIndexStep ==
  /\ \A i \in ValidIndex :
       /\ StepRemoveIndex(i) =>
            Elements' = DelAt(Elements, i) /\ array'.len = array.len - 1
       /\ StepRemoveIndexFast(i) =>
            Elements' = SwapOut(Elements, i) /\ array'.len = array.len - 1
  /\ \A i \in PValidIndex :
       /\ StepPtrRemoveIndex(i) =>
            PElements' = DelAt(PElements, i) /\ rarray'.len = rarray.len - 1
       /\ StepPtrRemoveIndexFast(i) =>
            PElements' = SwapOut(PElements, i) /\ rarray'.len = rarray.len - 1

RemoveIndexResult == [][RemoveIndexStep]_vars

\* the first of three elements was removed with the fast variant
FastRemovedFirst ==
  op = "g_array_remove_index_fast" /\ ~critical /\ Elements = <<3, 2>>

\* a call refused by g_return_val_if_fail: NULL returned, nothing changed, no
\* destructor called
Refused ==
  /\ ret' = RetNull /\ critical' /\ trace' = <<>>
  /\ array' = array /\ rarray' = rarray /\ wrapper' = wrapper
  /\ removed' = removed

\* C6: remove_index, remove_index_fast, steal_index and steal_index_fast with
\* index >= len, and remove_range with index + length > len, return NULL,
\* leave len, capacity and every element unchanged and call no destructor.
BadRemoveStep ==
  /\ (\E i \in BadIndex : StepRemoveIndex(i) \/ StepRemoveIndexFast(i)) => Refused
  /\ (\E p \in RangeArgs :
        p[1] + p[2] > array.len /\ StepRemoveRange(p[1], p[2])) => Refused
  /\ (\E i \in PBadIndex :
        \/ StepPtrRemoveIndex(i) \/ StepPtrRemoveIndexFast(i)
        \/ StepPtrStealIndex(i) \/ StepPtrStealIndexFast(i)) => Refused
  /\ (\E p \in PRangeArgs :
        p[1] + p[2] > rarray.len /\ StepPtrRemoveRange(p[1], p[2])) => Refused

BadRemoveRefused == [][BadRemoveStep]_vars

\* remove_range was refused on an array that holds elements and has a clear_func
RangeRefused ==
  /\ op = "g_array_remove_range" /\ critical /\ ret = RetNull
  /\ array.clear_func /\ array.len >= 1 /\ trace = <<>>

\* no element occurs twice in s
Distinct(s) == Cardinality(Range(s)) = Len(s)

\* the payloads the destructor calls in trace q were made on
Destroyed(q) ==
  {q[k].clear_func : k \in {j \in DOMAIN q : "clear_func" \in DOMAIN q[j]}}
    \cup {q[k].element_free_func :
            k \in {j \in DOMAIN q : "element_free_func" \in DOMAIN q[j]}}

\* C7: with a destructor registered, remove_index, remove_index_fast and
\* remove_range call it exactly once on each removed element, seeing the
\* element as it was before the tail moved into the gap, and on no element
\* that remains in the array (elements are told apart by their payload, so
\* the last part is stated for arrays that hold no payload twice).
DestructorStep ==
  /\ array.clear_func =>
       /\ \A i \in ValidIndex :
            StepRemoveIndex(i) \/ StepRemoveIndexFast(i) =>
              /\ trace' = <<[clear_func |-> Elements[i + 1]]>>
              /\ Distinct(Elements) => Destroyed(trace') \cap Payloads(Elements') = {}
       /\ \A p \in ValidRangeArgs :
            StepRemoveRange(p[1], p[2]) =>
              /\ trace' = [j \in 1..p[2] |-> [clear_func |-> Elements[p[1] + j]]]
              /\ Distinct(Elements) => Destroyed(trace') \cap Payloads(Elements') = {}
  /\ rarray.element_free_func =>
       /\ \A i \in PValidIndex :
            StepPtrRemoveIndex(i) \/ StepPtrRemoveIndexFast(i) =>
              /\ trace' = <<[element_free_func |-> PElements[i + 1]]>>
              /\ Distinct(PElements) => Destroyed(trace') \cap Payloads(PElements') = {}
       /\ \A p \in PValidRangeArgs :
            StepPtrRemoveRange(p[1], p[2]) =>
              /\ trace' = [j \in 1..p[2] |->
                             [element_free_func |-> PElements[p[1] + j]]]
              /\ Distinct(PElements) => Destroyed(trace') \cap Payloads(PElements') = {}

DestructorOnRemoved == [][DestructorStep]_vars

\* remove_range took the first two of three elements
RangeDestroyed ==
  /\ op = "g_array_remove_range" /\ Elements = <<3>>
  /\ trace = <<[clear_func |-> 1], [clear_func |-> 2]>>

StepSetSize(n, fill) == op' = "g_array_set_size" /\ SetSize(n, fill)
StepPtrSetSize(n, fill) == op' = "g_ptr_array_set_size" /\ PtrSetSize(n, fill)

\* the destructor calls on s[from + 1 .. Len(s)], in index order
ClearCalls(s, from) == [j \in 1..(Len(s) - from) |-> [clear_func |-> s[from + j]]]
FreeCalls(s, from) ==
  [j \in 1..(Len(s) - from) |-> [element_free_func |-> s[from + j]]]

\* C8: g_array_set_size (array, n) leaves len = n; growing an array created
\* with clear set leaves the new elements zero; shrinking calls the destructor
\* once on each element n .. old len - 1, as remove_range does, and leaves
\* elements 0 .. n-1 unchanged.  g_ptr_array_set_size sets the new slots to
\* NULL when growing and calls the free function on the tail when shrinking.
SetSizeStep ==
  /\ \A n \in 0..MaxLen, fill \in Fills :
       StepSetSize(n, fill) =>
         /\ array'.len = n
         /\ n > array.len /\ array.clear =>
              Load(array'.data, array.len, n - array.len) = Zeros(n - array.len)
         /\ n >= array.len => trace' = <<>>
         /\ n < array.len =>
              /\ trace' = IF array.clear_func THEN ClearCalls(Elements, n) ELSE <<>>
              /\ Elements' = Load(array.data, 0, n)
  /\ \A n \in 0..MaxLen, fill \in Fills :
       StepPtrSetSize(n, fill) =>
         /\ rarray'.len = n
         /\ n > rarray.len =>
              Load(rarray'.pdata, rarray.len, n - rarray.len) = Zeros(n - rarray.len)
         /\ n >= rarray.len => trace' = <<>>
         /\ n < rarray.len =>
              /\ trace' = IF rarray.element_free_func
                          THEN FreeCalls(PElements, n) ELSE <<>>
              /\ PElements' = Load(rarray.pdata, 0, n)

SetSizeResult == [][SetSizeStep]_vars

\* an array created with clear set was grown by an element, now zero
GrownCleared ==
  /\ op = "g_array_set_size" /\ array.clear /\ ~g_mem_gc_friendly
  /\ Elements = <<1, 0>>

StepRef == op' = "g_array_ref" /\ Ref
StepUnref == op' = "g_array_unref" /\ Unref
StepPtrRef == op' = "g_ptr_array_ref" /\ PtrRef
StepPtrUnref == op' = "g_ptr_array_unref" /\ PtrUnref
StepSteal == op' = "g_array_steal" /\ Steal
StepPtrSteal == op' = "g_ptr_array_steal" /\ PtrSteal

\* C9: over ref and unref calls, the array is destroyed exactly when its
\* reference count reaches zero: the unref that takes the count to zero calls
\* the destructor once on each of the len elements, in index order, and then
\* frees the data block; every other ref and unref only changes the count.
RefCountStep ==
  /\ StepRef =>
       /\ array' = [array EXCEPT !.ref_count = @ + 1]
       /\ wrapper' = "live" /\ trace' = <<>>
  /\ StepUnref /\ array.ref_count > 1 =>
       /\ array' = [array EXCEPT !.ref_count = @ - 1]
       /\ wrapper' = "live" /\ trace' = <<>>
  /\ StepUnref /\ array.ref_count = 1 =>
       /\ wrapper' = "freed" /\ array'.ref_count = 0
       /\ trace' = (IF array.clear_func THEN ClearCalls(Elements, 0) ELSE <<>>)
                     \o <<[g_free |-> array.data]>>
  /\ StepPtrRef =>
       /\ rarray' = [rarray EXCEPT !.ref_count = @ + 1]
       /\ wrapper' = "live" /\ trace' = <<>>
  /\ StepPtrUnref /\ rarray.ref_count > 1 =>
       /\ rarray' = [rarray EXCEPT !.ref_count = @ - 1]
       /\ wrapper' = "live" /\ trace' = <<>>
  /\ StepPtrUnref /\ rarray.ref_count = 1 =>
       /\ wrapper' = "freed" /\ rarray'.ref_count = 0
       /\ trace' = (IF rarray.element_free_func THEN FreeCalls(PElements, 0) ELSE <<>>)
                     \o <<[g_free |-> rarray.pdata]>>
  /\ wrapper' = "freed" <=>
       IF facade = "GPtrArray" THEN rarray'.ref_count = 0 ELSE array'.ref_count = 0

DestroyedAtZero == [][RefCountStep]_vars

\* the last unref of an array of three elements with a clear_func
LastUnref ==
  /\ op = "g_array_unref" /\ wrapper = "freed" /\ array.ref_count = 0
  /\ trace = <<[clear_func |-> 1], [clear_func |-> 2], [clear_func |-> 3],
               [g_free |-> Block(<<1, 2, 3>>)]>>

\* C10: steal returns the data block and the old len, leaves the array with
\* len 0, data NULL and capacity 0, its reference count unchanged, and calls no
\* destructor; no later call, the unref that takes the count to zero
\* included, calls the destructor on a stolen element.
StealStep ==
  /\ StepSteal =>
       /\ ret' = RetSeg(array.data, array.len)
       /\ array' = [array EXCEPT !.data = NULL, !.len = 0, !.elt_capacity = 0]
       /\ wrapper' = "live" /\ trace' = <<>>
  /\ StepPtrSteal =>
       /\ ret' = RetSeg(rarray.pdata, rarray.len)
       /\ rarray' = [rarray EXCEPT !.pdata = NULL, !.len = 0, !.alloc = 0]
       /\ wrapper' = "live" /\ trace' = <<>>
  /\ Destroyed(trace') \cap removed' = {}

StealTransfers == [][StealStep]_vars

\* the last unref of an array with a clear_func whose elements were stolen
\* and which was given an element since
UnrefAfterSteal ==
  /\ op = "g_array_unref" /\ wrapper = "freed" /\ array.clear_func
  /\ removed # {} /\ Len(trace) = 2

RECURSIVE HeldUpTo(_)
HeldUpTo(n) == IF n = 0 THEN 0 ELSE threads.held[n] + HeldUpTo(n - 1)
\* the references held by all threads together
Held == HeldUpTo(NThreads)

\* C11: with threads calling ref and unref in any interleaving, each on
\* references it holds, no increment or decrement is lost (the count is the
\* number of references held), the array is destroyed once, by the thread
\* whose unref took the count to zero, and never while a thread holds a
\* reference.
RefsAccounted ==
  /\ RefCount = Held
  /\ Len(threads.frees) + Cardinality(threads.freeing) <= 1
  /\ wrapper = "freed" <=> Len(threads.frees) = 1
  /\ threads.freeing # {} \/ threads.frees # <<>> => RefCount = 0
  /\ Held > 0 => wrapper = "live" /\ threads.freeing = {}

\* the array was destroyed by thread 2, on a reference thread 1 handed over
FreedByOtherThread ==
  /\ wrapper = "freed" /\ threads.frees = <<2>> /\ RefCount = 0

\* the 0-based indices of the elements of s that compare equal to target
Matches(s, target) == {i - 1 : i \in {j \in DOMAIN s : cmpint(s[j], target) = 0}}
\* the least element of a non-empty set of numbers
Least(S) == CHOOSE x \in S : \A y \in S : x <= y

\* C12: on an array sorted ascending that holds several elements comparing
\* equal to the target, g_array_binary_search returns TRUE and reports the
\* lowest index among those elements.
LowestMatchStep ==
  \A target \in Targets :
     BinarySearch(target) /\ Cardinality(Matches(Elements, target)) >= 2 =>
        ret' = RetFound(Least(Matches(Elements, target)))

LowestMatchReported == [][LowestMatchStep]_vars

\* C13: on an array sorted ascending, g_array_binary_search returns TRUE
\* exactly when some element compares equal to the target, the index it
\* reports is that of an element comparing equal to the target, and the array,
\* its elements and len are unchanged; on the empty array it returns FALSE.
SearchStep ==
  \A target \in Targets :
     BinarySearch(target) =>
        /\ ret'.bool <=> Matches(Elements, target) # {}
        /\ ret'.bool => ret'.out_match_index \in Matches(Elements, target)
        /\ array.len = 0 => ret' = RetBool(FALSE)
        /\ array' = array /\ wrapper' = "live" /\ ~oob'

SearchFindsMatch == [][SearchStep]_vars

\* the target was found at the far end of a full array of distinct keys
FoundLast ==
  /\ op = "g_array_binary_search" /\ array.len >= 3 /\ Distinct(Elements)
  /\ ret = RetFound(array.len - 1)

\* the elements of s that compare equal to x, in their order in s
Ties(s, x) == LET Tied(v) == cmpkey(v, x) = 0 IN SelectSeq(s, Tied)
\* after is before put in ascending order with ties left in their order
StablySorted(before, after) ==
  /\ Len(after) = Len(before)
  /\ \A i \in DOMAIN after : \A j \in DOMAIN after :
        i < j => cmpkey(after[i], after[j]) <= 0
  /\ \A x \in Range(before) \cup Range(after) : Ties(after, x) = Ties(before, x)

\* C14: g_array_sort, g_array_sort_with_data, g_ptr_array_sort and
\* g_ptr_array_sort_values leave the elements a permutation of what they were,
\* in ascending order of the comparison function, with elements that compare
\* equal in their original relative order; sorting again changes nothing; len,
\* the terminator and everything beyond the elements are unaffected.
SortStep ==
  /\ op' \in {"g_array_sort", "g_array_sort_with_data"} =>
        /\ StablySorted(Elements, Elements')
        /\ array' = [array EXCEPT !.data = Store(array.data, 0, Elements')]
        /\ g_array_sort(Ctx(array')).array = array'
        /\ g_array_sort_with_data(Ctx(array')).array = array'
        /\ wrapper' = "live" /\ ~oob'
  /\ op' \in {"g_ptr_array_sort", "g_ptr_array_sort_with_data",
              "g_ptr_array_sort_values"} =>
        /\ StablySorted(PElements, PElements')
        /\ rarray' = [rarray EXCEPT !.pdata = Store(rarray.pdata, 0, PElements')]
        /\ g_ptr_array_sort(PCtx(rarray')).rarray = rarray'
        /\ g_ptr_array_sort_values(PCtx(rarray')).rarray = rarray'
        /\ wrapper' = "live" /\ ~oob'

SortIsStable == [][SortStep]_vars

\* a zero-terminated array was sorted: 3 stayed ahead of 2, which compares
\* equal to it, and both went behind 1
TiesKeptInOrder ==
  /\ op = "g_array_sort" /\ array.zero_terminated = 1
  /\ Elements = <<1, 3, 2>> /\ added = {1, 2, 3}

\* the smallest power of two that is at least x
PowersOfTwo == {2 ^ k : k \in 0..SIZE_WIDTH}
Pow2Ceil(x) == CHOOSE p \in PowersOfTwo : p >= x /\ \A q \in PowersOfTwo : q >= x => p <= q

\* the largest len an array of these elements may have
MaxLenOf(elt_size, terminator) ==
  MIN((G_MAXSIZE \div 2) \div elt_size, G_MAXUINT) - terminator

\* a request to grow an array of len elements of elt_size bytes by n elements,
\* which took data and capacity from old to new, followed the growth policy
GrowthPolicy(len, n, elt_size, terminator, old, new) ==
  LET want_len == len + n + terminator
      bytes == MAX(Pow2Ceil(want_len * elt_size), 16)
  IN IF want_len > old.capacity
     THEN /\ ~new.data.null
          /\ Len(new.data.mem) = bytes \div elt_size
          /\ new.capacity = MIN(bytes \div elt_size, G_MAXUINT)
     ELSE /\ new.capacity = old.capacity
          /\ new.data.null = old.data.null
          /\ Len(new.data.mem) = Len(old.data.mem)

\* the growth requests of the step: the number of elements asked for.  A
\* request that was granted shows in the new len.
GrowRequest(n) ==
  /\ wrapper' = "aborted" \/ array'.len = array.len + n
  /\ \/ op' = "g_array_set_size" /\ n > 0
          /\ \E fill \in FreshFor(n) : GrowTo(array.len + n, fill)
     \/ op' = "g_array_append_vals" /\ \E fill \in FreshFor(n) : GrowAppend(n, fill)
PtrGrowRequest(n) ==
  /\ wrapper' = "aborted" \/ rarray'.len = rarray.len + n
  /\ \/ op' = "g_ptr_array_set_size" /\ n > 0
          /\ \E fill \in PFreshFor(n) : PtrGrowTo(rarray.len + n, fill)
     \/ op' = "g_ptr_array_add" /\ n = 1 /\ \E fill \in PFreshFor(1) : PtrGrowAdd(fill)

\* C15: g_array_maybe_expand and g_ptr_array_maybe_expand reallocate exactly
\* when want_len = len + n + terminator exceeds the capacity; the new block
\* then has the smallest power of two bytes that is at least want_len *
\* elt_size, and at least 16, and the new capacity is that size divided by
\* elt_size, capped at G_MAXUINT; otherwise data and capacity stay as they are.
GrowthStep ==
  \A n \in GrowLengths :
     /\ GrowRequest(n) /\ wrapper' = "live" =>
          GrowthPolicy(array.len, n, array.elt_size, array.zero_terminated,
                       [data |-> array.data, capacity |-> array.elt_capacity],
                       [data |-> array'.data, capacity |-> array'.elt_capacity])
     /\ PtrGrowRequest(n) /\ wrapper' = "live" =>
          GrowthPolicy(rarray.len, n, SIZEOF_GPOINTER, rarray.null_terminated,
                       [data |-> rarray.pdata, capacity |-> rarray.alloc],
                       [data |-> rarray'.pdata, capacity |-> rarray'.alloc])

GrowthFollowsPolicy == [][GrowthStep]_vars

\* an array of bytes reached the capacity cap: its block holds one byte more
\* than a guint can count
CapacityCapped ==
  /\ op = "g_array_set_size" /\ array.elt_size = 1
  /\ array.elt_capacity = G_MAXUINT /\ Len(array.data.mem) = G_MAXUINT + 1

\* the request of n more elements for an array of len elements is refused
\* when it is beyond the largest len, and else counted without wrapping
OverflowGuard(len, n, elt_size, terminator) ==
  IF MaxLenOf(elt_size, terminator) - len < n
  THEN wrapper' = "aborted" /\ array' = array /\ rarray' = rarray
  ELSE /\ wrapper' = "live"
       /\ len + n + terminator <= G_MAXUINT
       /\ (len + n + terminator) * elt_size <= G_MAXSIZE

\* C16: a growth request of n elements with max_len - len < n, where max_len
\* is min (G_MAXSIZE / 2 / elt_size, G_MAXUINT) less the terminator, ends in
\* the fatal error with data, capacity and len as they were; any other request
\* has len + n + terminator within a guint and its size in bytes within a
\* gsize.
OverflowStep ==
  \A n \in GrowLengths :
     /\ GrowRequest(n) =>
          OverflowGuard(array.len, n, array.elt_size, array.zero_terminated)
     /\ PtrGrowRequest(n) =>
          OverflowGuard(rarray.len, n, SIZEOF_GPOINTER, rarray.null_terminated)

OverflowIsFatal == [][OverflowStep]_vars

\* an append to a pointer array that is as long as it may be ended in the
\* fatal error
AppendRefused ==
  /\ wrapper = "aborted" /\ op = "g_ptr_array_add"
  /\ rarray.len = MaxLenOf(SIZEOF_GPOINTER, rarray.null_terminated)

\* the least k with 2^k >= x
CeilLog2(x) == CHOOSE k \in 0..SIZE_WIDTH : 2 ^ k >= x /\ \A j \in 0..SIZE_WIDTH : 2 ^ j >= x => k <= j

\* C17: an array created empty and grown to N elements by appending one
\* element at a time has been reallocated at most
\* ceil (log2 (max (16, (N + terminator) * elt_size))) times, the allocation
\* of its constructor included; every reallocation at least doubled the size
\* of the block in bytes, the first being of 16 bytes or more.
ReallocsLogarithmic ==
  /\ reallocs[1] <= CeilLog2(MAX(16, (array.len + array.zero_terminated) * array.elt_size))
  /\ reallocs[1] > 0 => Len(array.data.mem) * array.elt_size >= 2 ^ (reallocs[1] + 3)
  /\ reallocs[1] = 0 <=> array.data.null

\* MaxAppend elements were appended to a zero-terminated array, which took
\* four reallocations
GrownInFourSteps ==
  /\ array.len = MaxAppend /\ array.zero_terminated = 1 /\ reallocs = <<4>>

\* C18: an array created zero-terminated (GArray) or NULL-terminated
\* (GPtrArray) has, after its constructor and after every call that returned,
\* a zero / NULL element at index len whenever its data block is allocated,
\* and that element lies inside the block.
TerminatorInvariant ==
  wrapper = "live" =>
    /\ facade = "GArray" /\ array.zero_terminated = 1 /\ ~array.data.null =>
          InBlock(array.data, array.len, 1) /\ Load(array.data, array.len, 1) = <<0>>
    /\ facade = "GPtrArray" /\ rarray.null_terminated = 1 /\ ~rarray.pdata.null =>
          InBlock(rarray.pdata, rarray.len, 1) /\ Load(rarray.pdata, rarray.len, 1) = <<0>>

\* a zero-terminated array that is full after an element was taken out of
\* it, its terminator behind the last element
TerminatedAfterRemoval ==
  /\ facade = "GArray" /\ wrapper = "live" /\ array.zero_terminated = 1
  /\ array.len = MaxLen /\ removed # {} /\ ~(0 \in Range(Elements))
  /\ Load(array.data, array.len, 1) = <<0>>

\* the constructor calls of the step that were given reserved size rs and
\* asked for a terminator or not
CreatedArray(rs, terminated) ==
  \E zt \in {terminated}, cl \in BOOLEAN, es \in CreateEltSizes, fill \in Fills :
     \/ op' = "g_array_new" /\ rs = 0 /\ ArrayNew(zt, cl, es)
     \/ op' = "g_array_sized_new" /\ ArraySizedNew(zt, cl, es, rs, fill)
     \/ op' = "g_byte_array_new" /\ rs = 0 /\ ~terminated /\ ByteArrayNew
     \/ op' = "g_byte_array_sized_new" /\ ~terminated /\ ByteArraySizedNew(rs, fill)
CreatedPtrArray(rs, terminated) ==
  \E nt \in {terminated}, f \in BOOLEAN, fill \in Fills :
     \/ op' = "g_ptr_array_new" /\ rs = 0 /\ ~terminated /\ PtrArrayNew
     \/ op' = "g_ptr_array_sized_new" /\ ~terminated /\ PtrArraySizedNew(rs, fill)
     \/ op' = "g_ptr_array_new_with_free_func" /\ rs = 0 /\ ~terminated
          /\ PtrArrayNewWithFreeFunc(f)
     \/ op' = "g_ptr_array_new_full" /\ ~terminated /\ PtrArrayNewFull(rs, f, fill)
     \/ op' = "g_ptr_array_new_null_terminated"
          /\ PtrArrayNewNullTerminated(rs, f, nt, fill)

\* the new array has a block with room for the reserved elements
ArrayAllocated(rs) ==
  ~array'.data.null /\ array'.elt_capacity >= rs /\ array'.elt_capacity > 0
PtrArrayAllocated(rs) ==
  ~rarray'.pdata.null /\ rarray'.alloc >= rs /\ rarray'.alloc > 0
ArrayDeferred == array'.data.null /\ array'.elt_capacity = 0
PtrArrayDeferred == rarray'.pdata.null /\ rarray'.alloc = 0

\* C19 as claimed: every constructor allocates the data block at once if a
\* terminator was requested or the reserved size is greater than 0, and
\* otherwise leaves data NULL and the capacity 0.
CreationStepClaimed ==
  \A rs \in CreateSizes, terminated \in BOOLEAN :
     /\ CreatedArray(rs, terminated) =>
          IF terminated \/ rs > 0 THEN ArrayAllocated(rs) ELSE ArrayDeferred
     /\ CreatedPtrArray(rs, terminated) =>
          IF terminated \/ rs > 0 THEN PtrArrayAllocated(rs) ELSE PtrArrayDeferred

CreationAllocatesForTerminator == [][CreationStepClaimed]_vars

\* C19, amended: g_array_new, g_array_sized_new and the byte array
\* constructors allocate the data block at once if a terminator was requested
\* or the reserved size is greater than 0; the pointer array constructors
\* allocate it at once if and only if the reserved size is greater than 0,
\* terminator or not; otherwise data is NULL and the capacity 0.
CreationStep ==
  \A rs \in CreateSizes, terminated \in BOOLEAN :
     /\ CreatedArray(rs, terminated) =>
          IF terminated \/ rs > 0 THEN ArrayAllocated(rs) ELSE ArrayDeferred
     /\ CreatedPtrArray(rs, terminated) =>
          IF rs > 0 THEN PtrArrayAllocated(rs) ELSE PtrArrayDeferred

CreationAllocates == [][CreationStep]_vars

\* a NULL-terminated pointer array was created with no reserved size: it has
\* no block
TerminatedWithoutBlock ==
  /\ op = "g_ptr_array_new_null_terminated" /\ wrapper = "live"
  /\ rarray.null_terminated = 1 /\ rarray.pdata.null /\ rarray.alloc = 0

\* the call of the step; the number of elements it was given shows in nextId
StepInsert(index, n, fill) ==
  /\ op' = "g_array_insert_vals" /\ nextId' = nextId + n
  /\ InsertAt(index, n, fill)

\* C20: g_array_insert_vals (array, index, data, count) that returns, with
\* count > 0 and index beyond len, sets len to index + count, keeps the
\* elements 0 .. old len - 1, puts the new elements at index .. index + count
\* - 1 and, for an array created with clear set, leaves the elements old len
\* .. index - 1 in between zero; with index <= len it moves the elements from
\* index on up by count and len grows by count; with count = 0 it changes
\* nothing.
InsertStep ==
  \A index \in InsertIndexes, n \in Counts :
     wrapper' = "live"
       /\ (\E fill \in FreshFor(MAX(index - array.len, 0) + n) :
              StepInsert(index, n, fill)) =>
        /\ n = 0 => array' = array
        /\ n > 0 /\ index > array.len =>
             /\ array'.len = index + n
             /\ Load(array'.data, 0, array.len) = Elements
             /\ Load(array'.data, index, n) = Fresh(n)
             /\ array.clear =>
                  Load(array'.data, array.len, index - array.len)
                    = Zeros(index - array.len)
        /\ n > 0 /\ index <= array.len =>
             /\ array'.len = array.len + n
             /\ Elements' = SubSeq(Elements, 1, index) \o Fresh(n)
                              \o SubSeq(Elements, index + 1, array.len)
        /\ ~oob'

InsertPlacesElements == [][InsertStep]_vars

\* an element was inserted two places beyond the end of an array created
\* with clear set, over memory that was not zero
InsertedBeyondEnd ==
  /\ op = "g_array_insert_vals" /\ array.clear /\ array.zero_terminated = 0
  /\ Elements = <<1, 0, 0, 2>> /\ Load(array.data, 4, 1) = <<Junk>>

StepFree(free_segment) == op' = "g_array_free" /\ Free(free_segment)
StepPtrFree(free_segment) == op' = "g_ptr_array_free" /\ PtrFree(free_segment)

\* C21: g_array_free / g_ptr_array_free take one reference; while others are
\* held the wrapper stays, with len 0 and no data block, and on the last
\* reference the wrapper is freed.  With free_segment the destructor runs once
\* on each element, in order, and the block is freed; without it the block is
\* returned and no destructor runs.
FreeStep ==
  \A free_segment \in BOOLEAN :
     /\ StepFree(free_segment) =>
          /\ IF array.ref_count > 1
             THEN /\ wrapper' = "live"
                  /\ array' = [array EXCEPT !.ref_count = array.ref_count - 1,
                                            !.len = 0, !.data = NULL,
                                            !.elt_capacity = 0]
             ELSE wrapper' = "freed"
          /\ IF free_segment
             THEN /\ ret' = RetPtr(NULL)
                  /\ trace' = (IF array.clear_func THEN ClearCalls(Elements, 0) ELSE <<>>)
                                \o <<[g_free |-> array.data]>>
             ELSE ret' = RetPtr(array.data) /\ trace' = <<>>
     /\ StepPtrFree(free_segment) =>
          /\ IF rarray.ref_count > 1
             THEN /\ wrapper' = "live"
                  /\ rarray' = [rarray EXCEPT !.ref_count = rarray.ref_count - 1,
                                              !.len = 0, !.pdata = NULL, !.alloc = 0]
             ELSE wrapper' = "freed"
          /\ IF free_segment
             THEN /\ ret' = RetPtr(NULL)
                  /\ trace' = (IF rarray.element_free_func
                               THEN FreeCalls(PElements, 0) ELSE <<>>)
                                \o <<[g_free |-> rarray.pdata]>>
             ELSE /\ trace' = <<>>
                  /\ ~rarray.pdata.null => ret' = RetPtr(rarray.pdata)

FreeKeepsSharedWrapper == [][FreeStep]_vars

\* a shared array with a destructor was freed with its segment: the destructor
\* ran on both elements and the wrapper is left empty with one reference
FreedWhileShared ==
  /\ op = "g_array_free" /\ wrapper = "live" /\ array.ref_count = 1
  /\ array.data.null /\ array.len = 0 /\ Len(trace) = 3
  /\ trace[1] = [clear_func |-> 1] /\ trace[2] = [clear_func |-> 2]

\* C22: g_ptr_array_free (array, FALSE) on a NULL-terminated pointer array
\* returns a buffer that is not NULL and whose element at the array's former
\* len is NULL, whatever state the array is in.
PtrFreeStep ==
  StepPtrFree(FALSE) /\ rarray.null_terminated = 1 =>
     /\ ~ret'.segment.null
     /\ InBlock(ret'.segment, rarray.len, 1)
     /\ Load(ret'.segment, rarray.len, 1) = <<0>>
     /\ Load(ret'.segment, 0, rarray.len) = PElements

PtrFreeReturnsTerminated == [][PtrFreeStep]_vars

\* a NULL-terminated pointer array whose data had been stolen was freed
\* without its segment: the caller got a fresh buffer holding the terminator
FreshTerminatorReturned ==
  /\ op = "g_ptr_array_free" /\ rarray.null_terminated = 1 /\ removed # {}
  /\ ret = RetPtr(Block(<<0>>)) /\ trace = <<>>

\* the call of the step; a pointer that was taken out shows in removed
StepPtrRemove(data) ==
  /\ op' = "g_ptr_array_remove" /\ (data \in removed' \/ removed' = removed)
  /\ PtrRemove(data)
StepPtrRemoveFast(data) ==
  /\ op' = "g_ptr_array_remove_fast" /\ (data \in removed' \/ removed' = removed)
  /\ PtrRemoveFast(data)

\* what a removal by value leaves to observe: found tells whether the pointer
\* occurred, rest is the array without its first occurrence
RemovedByValue(data, found, rest) ==
  IF found
  THEN /\ ret' = RetBool(TRUE)
       /\ PElements' = rest
       /\ trace' = IF rarray.element_free_func
                   THEN <<[element_free_func |-> data]>> ELSE <<>>
  ELSE /\ ret' = RetBool(FALSE)
       /\ rarray' = rarray
       /\ trace' = <<>>

\* C23: g_ptr_array_remove and g_ptr_array_remove_fast take out the first
\* occurrence of the pointer only, moving the later elements down (remove) or
\* the last element into its place (remove_fast), call the free function on
\* it once and return TRUE; when the pointer does not occur they return
\* FALSE, leave the array as it was and call no free function.
RemoveByValueStep ==
  \A data \in Targets :
     LET at == Matches(PElements, data)
     IN /\ StepPtrRemove(data) =>
             RemovedByValue(data, at # {}, DelAt(PElements, Least(at)))
        /\ StepPtrRemoveFast(data) =>
             RemovedByValue(data, at # {}, SwapOut(PElements, Least(at)))

RemoveTakesFirst == [][RemoveByValueStep]_vars

\* the first of two occurrences of a pointer was removed from an array of three
FirstOfTwoRemoved ==
  /\ op = "g_ptr_array_remove" /\ ret = RetBool(TRUE)
  /\ added = {1, 2} /\ PElements = <<1, 2>> /\ rarray.alloc = 3


\* ---- one pointer array taking over the pointers of another
DonorCounts == 0..MaxAdd

\* g_ptr_array_new_take / g_ptr_array_new_take_null_terminated for the other
\* array, on n pointers not used before
DonorNew(n, element_free_func, null_terminated) ==
  /\ IsGPtrArray /\ donor.wrapper = "none"
  /\ LET c == IF null_terminated
              THEN g_ptr_array_new_take_null_terminated(Block(Fresh(n) \o <<0>>),
                                                        element_free_func)
              ELSE g_ptr_array_new_take(Block(Fresh(n)), n, element_free_func)
     IN donor' = [rarray |-> c.rarray, wrapper |-> "live"]
  /\ Adds(Fresh(n))
  /\ op' = "new"
  /\ UNCHANGED <<facade, g_mem_gc_friendly, fs, call, others, array, rarray, wrapper, trace, oob,
                 ret, critical, observe, threads, reallocs>>

\* g_ptr_array_ref on the other array
DonorRef ==
  /\ IsGPtrArray /\ donor.wrapper = "live" /\ donor.rarray.ref_count < MaxRef
  /\ donor' = [donor EXCEPT !.rarray = g_ptr_array_ref(PCtx(@)).rarray]
  /\ op' = "g_ptr_array_ref"
  /\ UNCHANGED <<facade, g_mem_gc_friendly, fs, call, others, array, rarray, wrapper, trace, oob,
                 ret, critical, observe, threads, reallocs, nextId, added, removed>>

\* the calls of both arrays are traced one after the other
PtrExtendAndSteal(fill) ==
  /\ IsGPtrArray /\ donor.wrapper = "live"
  /\ LET b == g_ptr_array_extend_and_steal(PCtx(rarray), PCtx(donor.rarray), fill)
         c == b.array_to_extend
         s == b.array
     IN /\ rarray' = c.rarray
        /\ wrapper' = Outcome(c)
        /\ donor' = [rarray |-> s.rarray, wrapper |-> Outcome(s)]
        /\ Outputs([c EXCEPT !.trace = @ \o s.trace, !.oob = @ \/ s.oob],
                   "g_ptr_array_extend_and_steal")
  /\ UNCHANGED <<facade, g_mem_gc_friendly, fs, call, others, array, nextId, added, removed>>

NextSteal ==
  \/ \E n \in DonorCounts, f \in BOOLEAN, nt \in BOOLEAN : DonorNew(n, f, nt)
  \/ DonorRef
  \/ \E fill \in Fills : PtrExtendAndSteal(fill)

SpecSteal == InitObserved /\ [][NextSteal]_vars

DonorElements == Load(donor.rarray.pdata, 0, donor.rarray.len)

\* C24: g_ptr_array_extend_and_steal appends the pointers of the other array to
\* the end of the array to extend, in their order, calls the element free
\* function of neither array, and drops one reference to the other array: that
\* array is destroyed if the reference was its last one, and is otherwise left
\* with one reference less, no elements and no data block.
StepPtrExtendAndSteal ==
  /\ op' = "g_ptr_array_extend_and_steal" /\ donor.wrapper = "live"
  /\ \E fill \in PFreshFor(donor.rarray.len) : PtrExtendAndSteal(fill)

ExtendAndStealStep ==
  StepPtrExtendAndSteal =>
    /\ wrapper' = "live"
    /\ Load(rarray'.pdata, 0, rarray'.len) = PElements \o DonorElements
    /\ \A i \in DOMAIN trace' : "element_free_func" \notin DOMAIN trace'[i]
    /\ IF donor.rarray.ref_count = 1
       THEN donor'.wrapper = "freed"
       ELSE /\ donor'.wrapper = "live"
            /\ donor'.rarray.ref_count = donor.rarray.ref_count - 1
            /\ donor'.rarray.len = 0
            /\ donor'.rarray.pdata = NULL

ExtendAndStealMoves == [][ExtendAndStealStep]_vars

\* two pointers moved from a shared array with a free function to an array
\* that held one
SharedArrayEmptied ==
  /\ op = "g_ptr_array_extend_and_steal"
  /\ donor.wrapper = "live" /\ donor.rarray.len = 0
  /\ donor.rarray.element_free_func /\ rarray.element_free_func
  /\ PElements = <<1, 2, 3>>


\* ----------------------------------------------- g_file_set_contents_full
\* The call runs one system call per step; each system call the code checks
\* may fail. POSIX build with HAVE_FSYNC and O_NOFOLLOW. g_unlink, whose
\* result the code ignores, removes the name.
G_FILE_SET_CONTENTS_CONSISTENT == "CONSISTENT"
G_FILE_SET_CONTENTS_DURABLE == "DURABLE"
G_FILE_SET_CONTENTS_ONLY_EXISTING == "ONLY_EXISTING"
G_FILE_SET_CONTENTS_NONE == {}
GFileSetContentsFlags ==
  SUBSET {G_FILE_SET_CONTENTS_CONSISTENT, G_FILE_SET_CONTENTS_DURABLE,
          G_FILE_SET_CONTENTS_ONLY_EXISTING}

Modes == {"rw-------", "rw-r--r--"}
\* the n bytes handed to a call: no byte occurs in contents of two lengths
Contents(n) == [i \in 1..n |-> 10 * n + i]
Lengths == 0..MaxLength

arrayVars == <<facade, g_mem_gc_friendly, array, rarray, wrapper, trace, oob,
               ret, critical, op, observe, threads, reallocs, donor,
               nextId, added, removed>>

otherVars == <<others, arrayVars>>

\* g_lstat (test_file, &statbuf): the size of a symbolic link is the length of
\* the path it holds
lstat(f) ==
  IF ~f.exists THEN [ok |-> FALSE, errno |-> "ENOENT", st_size |-> 0]
  ELSE [ok |-> TRUE, errno |-> "-",
        st_size |-> IF f.symlink THEN Len("filename") ELSE Len(f.content)]
\* what g_lstat may answer for entry f
LstatResults(f) == {lstat(f), [ok |-> FALSE, errno |-> "EIO", st_size |-> 0]}
\* the answers to enumerate for fd_should_be_fsynced: it calls g_lstat only
\* for a syncing flag together with the only-existing flag
StatResults(f, flags) ==
  IF /\ flags \cap {G_FILE_SET_CONTENTS_CONSISTENT,
                     G_FILE_SET_CONTENTS_DURABLE} # {}
     /\ G_FILE_SET_CONTENTS_ONLY_EXISTING \in flags
  THEN LstatResults(f) ELSE {NoCall.st}

\* st is the answer of g_lstat (test_file, &statbuf)
fd_should_be_fsynced(st, flags) ==
  LET sync == flags \cap {G_FILE_SET_CONTENTS_CONSISTENT,
                          G_FILE_SET_CONTENTS_DURABLE} # {}
  IN IF sync /\ G_FILE_SET_CONTENTS_ONLY_EXISTING \in flags
     THEN IF st.ok THEN st.st_size > 0
          ELSE IF st.errno = "ENOENT" THEN FALSE
          ELSE TRUE
     ELSE sync

\* the bytes of a file after n bytes vals were written at offset pos
Overwrite(content, pos, vals) ==
  [i \in 1..(IF Len(content) > pos + Len(vals) THEN Len(content)
              ELSE pos + Len(vals)) |->
     IF i > pos /\ i <= pos + Len(vals) THEN vals[i - pos] ELSE content[i]]

\* the system call succeeded
Logged(c, syscall) ==
  [c EXCEPT !.log = Append(@, [syscall |-> syscall, ok |-> TRUE])]
\* the system call failed: set_file_error (error, ...)
Failed(c, syscall) ==
  [c EXCEPT !.log = Append(@, [syscall |-> syscall, ok |-> FALSE]),
            !.error = syscall]
Returned(c, retval) == [c EXCEPT !.pc = "returned", !.retval = retval]

\* the descriptor write_to_file works on, and the name of its file
Fd == IF "direct_fd" \in call.fds THEN "direct_fd" ELSE "fd"
\* every descriptor leading to filename itself
Written_in_place == "filename"

Written == IF "direct_fd" \in call.fds THEN "filename" ELSE "tmp_filename"
Consistent == G_FILE_SET_CONTENTS_CONSISTENT \in call.flags

\* a failure of write_to_file that leaves the temporary file behind
WriteToFileFailed_kept(c) == Returned(c, FALSE)

\* write_to_file returned FALSE to g_file_set_contents_full
WriteToFileFailed(c) ==
  IF Consistent THEN [c EXCEPT !.pc = "g_unlink"] ELSE Returned(c, FALSE)

\* a write_to_file that closes the file without g_fsync
AfterWrite_unsynced(c) ==
  IF c.length > 0 THEN [c EXCEPT !.pc = "write"] ELSE [c EXCEPT !.pc = "g_close"]

\* the loop test of write_to_file, and what follows the loop
AfterWrite(c) ==
  IF c.length > 0 THEN [c EXCEPT !.pc = "write"]
  ELSE IF c.do_fsync THEN [c EXCEPT !.pc = "g_fsync"]
  ELSE [c EXCEPT !.pc = "g_close"]

Enter(flags, contents, mode) ==
  /\ call.pc \in {"idle", "returned"}
  /\ call' = [NoCall EXCEPT
                !.pc = IF G_FILE_SET_CONTENTS_CONSISTENT \in flags
                       THEN "g_mkstemp_full" ELSE "g_open",
                !.given = flags, !.flags = flags, !.contents = contents,
                !.length = Len(contents), !.mode = mode, !.before = fs.filename]
  /\ UNCHANGED <<fs, otherVars>>

\* ---- get_tmp_file. A name is the number that the six letters put in place
\* of XXXXXX spell; the names tried are value, value + 7777, ...
Attempts == 100
ValueStep == 7777

\* a directory in which a writer does not see the files of the others
Taken_own == fs.taken

\* the names of the directory that match the template
Taken ==
  fs.taken \cup {others[w].call.XXXXXX :
                   w \in {v \in DOMAIN others : others[v].tmp_filename.exists}}

\* a get_tmp_file that opens the first name whether or not it exists
get_tmp_file_loop_shared(value, count, taken, bad) ==
  IF bad = count
  THEN [fd |-> -1, errno |-> "EACCES", XXXXXX |-> value, count |-> count + 1]
  ELSE [fd |-> 0, errno |-> "-", XXXXXX |-> value, count |-> count + 1]

\* for (count = 0; count < 100; value += 7777, ++count): f (tmpl, flags |
\* O_CREAT | O_EXCL, mode) fails with EEXIST for a name that is taken, and with
\* another errno in attempt bad
RECURSIVE get_tmp_file_loop(_, _, _, _)
get_tmp_file_loop(value, count, taken, bad) ==
  IF count < Attempts /\ bad # count /\ value \in taken
  THEN get_tmp_file_loop(value + ValueStep, count + 1, taken, bad)
  ELSE IF ~(count < Attempts)
  THEN [fd |-> -1, errno |-> "EEXIST", XXXXXX |-> value - ValueStep, count |-> count]
  ELSE IF bad = count
  THEN [fd |-> -1, errno |-> "EACCES", XXXXXX |-> value, count |-> count + 1]
  ELSE [fd |-> 0, errno |-> "-", XXXXXX |-> value, count |-> count + 1]

\* fd is 0 for a descriptor and -1 for none, count the calls of f made
get_tmp_file(value, taken, bad) == get_tmp_file_loop(value, 0, taken, bad)

\* the values to enumerate: the lowest name that is free, and each name from
\* which a run of taken names starts
StartValues(taken) ==
  {n \in taken : n - ValueStep \notin taken}
    \cup {get_tmp_file(0, taken, Attempts + Cardinality(taken)).XXXXXX}
\* the attempts to enumerate for a failure with another errno: the first two,
\* the last one made, and none (attempt number Attempts is never made)
BadAttempts(value, taken) ==
  LET last == get_tmp_file(value, taken, Attempts).count - 1
  IN {n \in {0, 1} : n <= last} \cup {last, Attempts}

\* fd = g_mkstemp_full (tmp_filename, O_RDWR | O_BINARY | O_CLOEXEC, mode)
Mkstemp(value, bad) ==
  /\ call.pc = "g_mkstemp_full"
  /\ LET r == get_tmp_file(value, Taken, bad)
         c == [call EXCEPT !.XXXXXX = r.XXXXXX, !.count = r.count,
                           !.errno = r.errno]
     IN IF r.fd >= 0
        THEN /\ fs' = [fs EXCEPT !.tmp_filename = Regular(<<>>, call.mode)]
             /\ call' = [Logged(c, "g_mkstemp_full") EXCEPT
                           !.fds = @ \cup {"fd"}, !.pc = "fchmod"]
        ELSE /\ call' = Returned(Failed(c, "g_mkstemp_full"), FALSE)
             /\ UNCHANGED fs
  /\ UNCHANGED otherVars

\* a call that leaves the temporary file with the mode it was created with
Fchmod_skipped(ok) ==
  /\ call.pc = "fchmod" /\ ok
  /\ call' = [Logged(call, "fchmod") EXCEPT !.pc = "g_lstat"]
  /\ UNCHANGED <<fs, otherVars>>

\* if (!g_stat (filename, &old_stat)) fchmod (fd, old_stat.st_mode)
Fchmod(ok) ==
  /\ call.pc = "fchmod"
  /\ IF ~fs.filename.exists
     THEN ok /\ call' = [call EXCEPT !.pc = "g_lstat"] /\ UNCHANGED fs
     ELSE IF ok
     THEN /\ fs' = [fs EXCEPT !.tmp_filename.mode = fs.filename.mode]
          /\ call' = [Logged(call, "fchmod") EXCEPT !.pc = "g_lstat"]
     ELSE /\ call' = [Failed(call, "fchmod") EXCEPT !.pc = "g_unlink"]
          /\ UNCHANGED fs
  /\ UNCHANGED otherVars

\* direct_fd = g_open (filename, O_RDWR | O_CREAT | O_NOFOLLOW | ..., mode)
Open(ok) ==
  /\ call.pc = "g_open"
  /\ IF ~ok
     THEN call' = Returned(Failed(call, "g_open"), FALSE) /\ UNCHANGED fs
     ELSE IF fs.filename.symlink
     THEN \* ELOOP: the call is made again with the consistent flag added
          /\ call' = [call EXCEPT
                        !.flags = @ \cup {G_FILE_SET_CONTENTS_CONSISTENT},
                        !.pc = "g_mkstemp_full"]
          /\ UNCHANGED fs
     ELSE /\ fs' = IF fs.filename.exists THEN fs
                   ELSE [fs EXCEPT !.filename = Regular(<<>>, call.mode)]
          /\ call' = [Logged(call, "g_open") EXCEPT
                        !.fds = @ \cup {"direct_fd"}, !.pc = "g_lstat"]
  /\ UNCHANGED otherVars

\* a decision taken on the file as it is after truncate_file
ShouldBeFsynced_late(st) ==
  /\ call.pc = "g_lstat"
  /\ call' = [call EXCEPT
                !.do_fsync = fd_should_be_fsynced([st EXCEPT !.st_size = 0], call.flags),
                !.st = [st EXCEPT !.st_size = 0],
                !.pc = IF "direct_fd" \in call.fds THEN "ftruncate"
                       ELSE "fallocate"]
  /\ UNCHANGED <<fs, otherVars>>

\* do_fsync = fd_should_be_fsynced (fd, filename, flags)
ShouldBeFsynced(st) ==
  /\ call.pc = "g_lstat"
  /\ call' = [call EXCEPT !.do_fsync = fd_should_be_fsynced(st, call.flags),
                          !.st = st,
                          !.pc = IF "direct_fd" \in call.fds THEN "ftruncate"
                                 ELSE "fallocate"]
  /\ UNCHANGED <<fs, otherVars>>

\* a truncate_file that leaves the bytes of the file in place
Truncate_kept(ok) ==
  /\ call.pc = "ftruncate" /\ ok
  /\ call' = [Logged(call, "ftruncate") EXCEPT !.pc = "fallocate"]
  /\ UNCHANGED <<fs, otherVars>>

\* truncate_file (direct_fd, 0, filename, error)
Truncate(ok) ==
  /\ call.pc = "ftruncate"
  /\ IF ok
     THEN /\ fs' = [fs EXCEPT !.filename.content = <<>>]
          /\ call' = [Logged(call, "ftruncate") EXCEPT !.pc = "fallocate"]
     ELSE /\ call' = Returned(Failed(call, "ftruncate"), FALSE)
          /\ UNCHANGED fs
  /\ UNCHANGED otherVars

\* (void) fallocate (fd, 0, 0, length): where it is supported, the file is
\* grown with zero bytes to length
Fallocate(supported) ==
  /\ call.pc = "fallocate"
  /\ IF call.length > 0 /\ supported
     THEN fs' = [fs EXCEPT ![Written].content =
                   Overwrite(@, Len(@), [i \in 1..(call.length - Len(@)) |-> 0])]
     ELSE ~supported /\ UNCHANGED fs
  /\ call' = AfterWrite(call)
  /\ UNCHANGED otherVars

\* s = write (fd, contents, length) took s bytes
Write(s) ==
  /\ call.pc = "write" /\ s \in 1..call.length
  /\ LET pos == Len(call.contents) - call.length
     IN fs' = [fs EXCEPT ![Written].content =
                 Overwrite(@, pos, SubSeq(call.contents, pos + 1, pos + s))]
  /\ call' = AfterWrite([Logged(call, "write") EXCEPT
                            !.length = @ - s,
                            !.accepted = @ \o SubSeq(call.contents,
                                                     Len(call.contents) - call.length + 1,
                                                     Len(call.contents) - call.length + s)])
  /\ UNCHANGED otherVars

\* a loop that counts an interrupted write as one byte written
WriteInterrupted_advancing ==
  /\ call.pc = "write" /\ call.eintr < MaxEintr
  /\ call' = AfterWrite([call EXCEPT !.eintr = @ + 1, !.length = @ - 1])
  /\ UNCHANGED <<fs, otherVars>>

\* s < 0 with errno EINTR: continue
WriteInterrupted ==
  /\ call.pc = "write" /\ call.eintr < MaxEintr
  /\ call' = [call EXCEPT !.eintr = @ + 1]
  /\ UNCHANGED <<fs, otherVars>>

\* s < 0 with another errno: close (fd); return FALSE
WriteFailed ==
  /\ call.pc = "write"
  /\ call' = WriteToFileFailed([Failed(call, "write") EXCEPT !.fds = @ \ {Fd}])
  /\ UNCHANGED <<fs, otherVars>>

\* if (do_fsync && g_fsync (fd) != 0) { close (fd); return FALSE; }
Fsync(ok) ==
  /\ call.pc = "g_fsync"
  /\ call' = IF ok THEN [Logged(call, "g_fsync") EXCEPT !.pc = "g_close"]
             ELSE WriteToFileFailed([Failed(call, "g_fsync") EXCEPT !.fds = @ \ {Fd}])
  /\ UNCHANGED <<fs, otherVars>>

\* if (!g_close (fd, err)) return FALSE; return TRUE;
Close(ok) ==
  /\ call.pc = "g_close"
  /\ call' = IF ~ok
             THEN WriteToFileFailed([Failed(call, "g_close") EXCEPT !.fds = @ \ {Fd}])
             ELSE IF Consistent
             THEN [Logged(call, "g_close") EXCEPT !.fds = @ \ {Fd}, !.pc = "g_rename"]
             ELSE Returned([Logged(call, "g_close") EXCEPT !.fds = @ \ {Fd}], TRUE)
  /\ UNCHANGED <<fs, otherVars>>

\* rename_file (tmp_filename, filename, do_fsync, &rename_error) up to the
\* test of do_fsync
rename_file(c, ok) ==
  IF ~ok THEN [Failed(c, "g_rename") EXCEPT !.pc = "g_unlink"]
  ELSE IF c.do_fsync THEN [Logged(c, "g_rename") EXCEPT !.pc = "g_fsync (dir_fd)"]
  ELSE Returned(Logged(c, "g_rename"), TRUE)

Rename(ok) ==
  /\ call.pc = "g_rename"
  /\ fs' = IF ok
           THEN [filename |-> [fs.tmp_filename EXCEPT !.symlink = FALSE],
                 tmp_filename |-> Absent, taken |-> fs.taken]
           ELSE fs
  /\ call' = rename_file(call, ok)
  /\ UNCHANGED otherVars

\* the rest of rename_file: dir_fd = g_open (dir, ...); if (dir_fd >= 0)
\* { g_fsync (dir_fd); g_close (dir_fd, NULL); }
FsyncDir(opened) ==
  /\ call.pc = "g_fsync (dir_fd)"
  /\ call' = Returned(IF opened THEN Logged(call, "g_fsync (dir_fd)") ELSE call, TRUE)
  /\ UNCHANGED <<fs, otherVars>>

\* g_unlink (tmp_filename); retval = FALSE; goto consistent_out;
Unlink ==
  /\ call.pc = "g_unlink"
  /\ fs' = [fs EXCEPT !.tmp_filename = Absent]
  /\ call' = Returned(Logged(call, "g_unlink"), FALSE)
  /\ UNCHANGED otherVars

\* the directory before the first call: filename is missing, a regular file
\* or a symbolic link to one
InitFile ==
  /\ facade = "none" /\ wrapper = "none" /\ g_mem_gc_friendly = FALSE
  /\ array = NoArray /\ rarray = NoPtrArray /\ donor = NoDonor
  /\ trace = <<>> /\ oob = FALSE /\ ret = RetVoid /\ critical = FALSE /\ op = "-"
  /\ observe = TRUE /\ threads = OneOwner /\ reallocs = Uncounted
  /\ nextId = 1 /\ added = {} /\ removed = {}
  /\ call = NoCall /\ others = <<>>
  /\ \E f \in {Absent} \cup {Regular(Contents(n), m) : n \in Lengths, m \in Modes}
                       \cup {Symlink(Contents(n), m) : n \in Lengths, m \in Modes} :
       fs = [filename |-> f, tmp_filename |-> Absent, taken |-> {}]

NextFile ==
  \/ \E flags \in GFileSetContentsFlags, n \in Lengths, mode \in Modes :
       Enter(flags, Contents(n), mode)
  \/ \E value \in StartValues(Taken) :
       \E bad \in BadAttempts(value, Taken) : Mkstemp(value, bad)
  \/ \E ok \in BOOLEAN : Fchmod(ok)
  \/ \E ok \in BOOLEAN : Open(ok)
  \/ \E st \in StatResults(fs.filename, call.flags) : ShouldBeFsynced(st)
  \/ \E ok \in BOOLEAN : Truncate(ok)
  \/ \E supported \in BOOLEAN : Fallocate(supported)
  \/ \E s \in 1..MaxLength : Write(s)
  \/ WriteInterrupted
  \/ WriteFailed
  \/ \E ok \in BOOLEAN : Fsync(ok)
  \/ \E ok \in BOOLEAN : Close(ok)
  \/ \E ok \in BOOLEAN : Rename(ok)
  \/ \E opened \in BOOLEAN : FsyncDir(opened)
  \/ Unlink

SpecFile == InitFile /\ [][NextFile]_vars


\* ---- the calls of the log
Did(syscall) == {i \in DOMAIN call.log : call.log[i] = [syscall |-> syscall, ok |-> TRUE]}
FailedCalls == {i \in DOMAIN call.log : ~call.log[i].ok}

\* C25: when a step of a g_file_set_contents_full call in consistent mode
\* failed (g_mkstemp_full, fchmod, write, g_fsync, g_close or g_rename), the
\* call returns FALSE with the error of that step, filename leads to what it
\* led to before the call, and tmp_filename is gone.
ConsistentFailureCleansUp ==
  (call.pc = "returned" /\ Consistent /\ FailedCalls # {}) =>
    /\ ~call.retval
    /\ \A i \in FailedCalls : call.error = call.log[i].syscall
    /\ fs.filename = call.before
    /\ ~fs.tmp_filename.exists

\* g_fsync failed after the two bytes were written to the temporary file of
\* a file that held one byte
FsyncFailureCleanedUp ==
  /\ call.pc = "returned" /\ Consistent /\ call.error = "g_fsync"
  /\ Cardinality(Did("write")) = 2
  /\ call.before = Regular(Contents(1), "rw-------")


\* C26: from the entry of a g_file_set_contents_full call in consistent mode
\* to its return, after every step, filename leads either to exactly what it
\* led to before the call (nothing, if it did not exist) or to a regular file
\* holding exactly the contents of the call; never to part of them.
ConsistentNeverPartial ==
  (Consistent /\ call.pc # "idle") =>
    \/ fs.filename = call.before
    \/ /\ fs.filename.exists /\ ~fs.filename.symlink
       /\ fs.filename.content = call.contents

\* one of two bytes is in the temporary file while filename still holds its
\* one old byte
HalfWrittenAside ==
  /\ Consistent /\ call.pc = "write" /\ call.length = 1
  /\ fs.tmp_filename.content = <<Contents(2)[1]>>
  /\ call.before = Regular(Contents(1), "rw-------")
  /\ fs.filename = call.before


\* C27: when g_file_set_contents_full returned TRUE, whatever its flags,
\* filename holds exactly the contents of the call: a call without flags that
\* writes fewer bytes than the file held leaves none of the old bytes.
SuccessLeavesContents ==
  (call.pc = "returned" /\ call.retval) =>
    /\ fs.filename.exists
    /\ fs.filename.content = call.contents

\* a call without flags wrote one byte to a regular file that held two
ShorterContentsWritten ==
  /\ call.pc = "returned" /\ call.retval
  /\ call.given = G_FILE_SET_CONTENTS_NONE /\ ~Consistent
  /\ call.before.content = Contents(2)
  /\ fs.filename.content = Contents(1)
  /\ Did("ftruncate") # {}


\* C28: a g_file_set_contents_full call that returns TRUE has called g_fsync
\* on the file it wrote exactly if it was given the consistent or the durable
\* flag and, when it was also given the only-existing flag, filename existed
\* before the call with a size above 0 or g_lstat failed with an error other
\* than ENOENT. Without flags there is no g_fsync.
FsyncFollowsFlags ==
  (call.pc = "returned" /\ call.retval) =>
    (Did("g_fsync") # {} <=>
       /\ call.given \cap {G_FILE_SET_CONTENTS_CONSISTENT,
                           G_FILE_SET_CONTENTS_DURABLE} # {}
       /\ G_FILE_SET_CONTENTS_ONLY_EXISTING \in call.given =>
            \/ call.before.exists /\ lstat(call.before).st_size > 0
            \/ ~call.st.ok /\ call.st.errno \notin {"-", "ENOENT"})


\* C29: g_file_set_contents_full calls g_fsync on the directory of filename
\* only if it was given both the consistent and the durable flag (and, with
\* the only-existing flag, filename existed before the call with a size above
\* 0 or g_lstat failed with an error other than ENOENT): with the consistent
\* flag alone the temporary file is written, synced and renamed, and the
\* directory is not synced.
DirFsyncNeedsBothFlags ==
  Did("g_fsync (dir_fd)") # {} =>
    /\ {G_FILE_SET_CONTENTS_CONSISTENT, G_FILE_SET_CONTENTS_DURABLE} \subseteq call.given
    /\ G_FILE_SET_CONTENTS_ONLY_EXISTING \in call.given =>
         \/ call.before.exists /\ lstat(call.before).st_size > 0
         \/ ~call.st.ok /\ call.st.errno \notin {"-", "ENOENT"}

\* ---- the order of the calls of the log
Before(i) == {call.log[j].syscall : j \in {k \in DOMAIN call.log : k < i /\ call.log[k].ok}}
Tried(syscall) == {i \in DOMAIN call.log : call.log[i].syscall = syscall}

\* C30: in consistent mode g_rename is called only when the temporary file
\* holds all bytes of the call, g_fsync on it succeeded if
\* fd_should_be_fsynced asked for it, and its descriptor was closed without
\* error; g_fsync on the directory is called only after g_rename succeeded.
RenameComesLast ==
  Consistent =>
    /\ call.pc = "g_rename" =>
         /\ call.length = 0 /\ fs.tmp_filename.content = call.contents
         /\ "fd" \notin call.fds
    /\ \A i \in Tried("g_rename") :
         /\ "g_close" \in Before(i)
         /\ fd_should_be_fsynced(call.st, call.flags) => "g_fsync" \in Before(i)
         /\ \A j \in Tried("write") \cup Tried("g_fsync") \cup Tried("g_close") : j < i
    /\ \A i \in Tried("g_fsync (dir_fd)") : "g_rename" \in Before(i)

\* a call with the consistent and the durable flag wrote two bytes in two
\* write calls, and synced the file and the directory
WrittenSyncedRenamed ==
  /\ call.pc = "returned" /\ call.retval
  /\ call.given = {G_FILE_SET_CONTENTS_CONSISTENT, G_FILE_SET_CONTENTS_DURABLE}
  /\ [i \in DOMAIN call.log |-> call.log[i].syscall] =
       <<"g_mkstemp_full", "fchmod", "write", "write", "g_fsync", "g_close",
         "g_rename", "g_fsync (dir_fd)">>


\* ---- creating the temporary file in a directory where names are taken
Run(n) == {ValueStep * k : k \in 0..(n - 1)}
TakenSets ==
  {Run(n) : n \in {0, 1, 2, Attempts - 1, Attempts, Attempts + 1}}
    \cup {Run(3) \ {ValueStep}, Run(Attempts + 1) \ {ValueStep * (Attempts - 1)}}

InitTmp ==
  /\ facade = "none" /\ wrapper = "none" /\ g_mem_gc_friendly = FALSE
  /\ array = NoArray /\ rarray = NoPtrArray /\ donor = NoDonor
  /\ trace = <<>> /\ oob = FALSE /\ ret = RetVoid /\ critical = FALSE /\ op = "-"
  /\ observe = TRUE /\ threads = OneOwner /\ reallocs = Uncounted
  /\ nextId = 1 /\ added = {} /\ removed = {}
  /\ call = NoCall /\ others = <<>>
  /\ \E f \in {Absent} \cup {Regular(Contents(1), m) : m \in Modes},
        taken \in TakenSets :
       fs = [filename |-> f, tmp_filename |-> Absent, taken |-> taken]

NextTmp ==
  \/ \E flags \in GFileSetContentsFlags, n \in Lengths, mode \in Modes :
       G_FILE_SET_CONTENTS_CONSISTENT \in flags /\ Enter(flags, Contents(n), mode)
  \/ \E value \in StartValues(Taken) :
       \E bad \in BadAttempts(value, Taken) : Mkstemp(value, bad)

SpecTmp == InitTmp /\ [][NextTmp]_vars

\* the names get_tmp_file tried before the one it ended with
TriedBefore == {call.XXXXXX - ValueStep * k : k \in 1..(call.count - 1)}

\* C31: get_tmp_file makes at most 100 attempts, each on a new name opened
\* with O_CREAT | O_EXCL. Every name before the one it ends with was taken; a
\* descriptor it returns is of a name that was not taken, whose file is new
\* and empty; it returns -1 with EEXIST only after 100 attempts on taken
\* names; no file that existed is opened or changed.
TmpFileIsNew ==
  Tried("g_mkstemp_full") # {} =>
    /\ call.count \in 1..Attempts
    /\ TriedBefore \subseteq Taken
    /\ fs.taken \in TakenSets
    /\ IF Did("g_mkstemp_full") # {}
       THEN /\ call.XXXXXX \notin Taken /\ call.errno = "-"
            /\ call.pc = "fchmod" => fs.tmp_filename = Regular(<<>>, call.mode)
       ELSE /\ call.errno # "-" /\ ~call.retval /\ ~fs.tmp_filename.exists
            /\ fs.filename = call.before
            /\ call.errno = "EEXIST" =>
                 call.count = Attempts /\ call.XXXXXX \in Taken

\* the hundred names tried were all taken
NamesExhausted ==
  /\ call.pc = "returned" /\ call.error = "g_mkstemp_full"
  /\ call.errno = "EEXIST" /\ call.count = Attempts
  /\ Cardinality(TriedBefore \cup {call.XXXXXX}) = Attempts

\* ---- write_to_file under a write that does return: a call of write that is
\* possible for ever is made, with a positive count, in the end
InitWrite == InitFile /\ ~fs.filename.symlink

NextWrite ==
  \/ \E flags \in SUBSET {G_FILE_SET_CONTENTS_DURABLE}, n \in Lengths, mode \in Modes :
       Enter(flags, Contents(n), mode)
  \/ \E ok \in BOOLEAN : Open(ok)
  \/ \E st \in StatResults(fs.filename, call.flags) : ShouldBeFsynced(st)
  \/ \E ok \in BOOLEAN : Truncate(ok)
  \/ \E supported \in BOOLEAN : Fallocate(supported)
  \/ \E s \in 1..MaxLength : Write(s)
  \/ WriteInterrupted
  \/ WriteFailed
  \/ \E ok \in BOOLEAN : Fsync(ok)
  \/ \E ok \in BOOLEAN : Close(ok)

SpecWrite ==
  InitWrite /\ [][NextWrite]_vars /\ WF_vars(\E s \in 1..MaxLength : Write(s))

\* the bytes that the write calls took are the first bytes of contents, and
\* all of them once write_to_file closed the file; after a write that failed
\* nothing more is written and the call does not return TRUE
AcceptedInOrder ==
  /\ call.accepted = SubSeq(call.contents, 1, Len(call.contents) - call.length)
  /\ Did("g_close") # {} => call.accepted = call.contents
  /\ \A i \in Tried("write") :
       ~call.log[i].ok =>
         /\ call.pc \in {"g_unlink", "returned"}
         /\ call.pc = "returned" => ~call.retval
         /\ \A j \in DOMAIN call.log :
              j > i => call.log[j].syscall \notin {"write", "g_fsync", "g_close", "g_rename"}

\* a write that ended with EINTR is tried again with the same bytes
EintrRetried ==
  call'.eintr # call.eintr /\ call.pc = "write" =>
    /\ call' = [call EXCEPT !.eintr = @ + 1]
    /\ fs' = fs

\* C32: whatever the write calls of write_to_file take (fewer bytes than
\* given, EINTR), the bytes they took are in order the bytes of contents, none
\* left out and none twice, and all of contents when write_to_file returns
\* TRUE; after EINTR the same bytes are tried again; another error of write
\* ends the loop with FALSE; when write takes bytes in the end, the loop ends.
WriteLoopExact ==
  /\ []AcceptedInOrder
  /\ [][EintrRetried]_vars
  /\ (call.pc = "write") ~> (call.pc # "write")

\* contents went out in two writes with an EINTR, and the file was closed
InterruptedShortWrites ==
  /\ call.eintr >= 1 /\ Cardinality(Did("write")) >= 2 /\ Did("g_close") # {}

\* ---- two writers of filename in consistent mode. One call runs; the other
\* is suspended between two of its system calls, with its temporary file
InitWriters ==
  /\ facade = "none" /\ wrapper = "none" /\ g_mem_gc_friendly = FALSE
  /\ array = NoArray /\ rarray = NoPtrArray /\ donor = NoDonor
  /\ trace = <<>> /\ oob = FALSE /\ ret = RetVoid /\ critical = FALSE /\ op = "-"
  /\ observe = TRUE /\ threads = OneOwner /\ reallocs = Uncounted
  /\ nextId = 1 /\ added = {} /\ removed = {}
  /\ call = NoCall /\ others = <<[call |-> NoCall, tmp_filename |-> Absent]>>
  /\ \E f \in {Absent, Regular(Contents(1), "rw-r--r--")} :
       fs = [filename |-> f, tmp_filename |-> Absent, taken |-> {}]

\* the scheduler takes the running call off the processor and resumes w
Switch(w) ==
  /\ w \in DOMAIN others
  /\ call' = others[w].call
  /\ fs' = [fs EXCEPT !.tmp_filename = others[w].tmp_filename]
  /\ others' = [others EXCEPT ![w] = [call |-> call, tmp_filename |-> fs.tmp_filename]]
  /\ UNCHANGED arrayVars

NextWriters ==
  \/ \E flags \in GFileSetContentsFlags, n \in {1, MaxLength} :
       /\ call.pc = "idle"
       /\ G_FILE_SET_CONTENTS_CONSISTENT \in flags
       /\ G_FILE_SET_CONTENTS_ONLY_EXISTING \notin flags
       /\ Enter(flags, Contents(n), "rw-------")
  \/ \E value \in StartValues(Taken) :
       \E bad \in BadAttempts(value, Taken) : Mkstemp(value, bad)
  \/ \E ok \in BOOLEAN : Fchmod(ok)
  \/ \E st \in StatResults(fs.filename, call.flags) : ShouldBeFsynced(st)
  \/ \E supported \in BOOLEAN : Fallocate(supported)
  \/ \E s \in 1..MaxLength : Write(s)
  \/ WriteFailed
  \/ \E ok \in BOOLEAN : Fsync(ok)
  \/ \E ok \in BOOLEAN : Close(ok)
  \/ \E ok \in BOOLEAN : Rename(ok)
  \/ \E opened \in BOOLEAN : FsyncDir(opened)
  \/ Unlink
  \/ \E w \in DOMAIN others : Switch(w)

SpecWriters == InitWriters /\ [][NextWriters]_vars

Writers == {call} \cup {others[w].call : w \in DOMAIN others}
Renamed == {c \in Writers : \E i \in DOMAIN c.log : c.log[i] = [syscall |-> "g_rename", ok |-> TRUE]}
WritersReturned == \A c \in Writers : c.pc = "returned"

\* two temporary files that exist have two names
OwnTempFiles ==
  \A w \in DOMAIN others :
    fs.tmp_filename.exists /\ others[w].tmp_filename.exists =>
      call.XXXXXX # others[w].call.XXXXXX

\* filename holds what it held before the calls or all bytes of a writer that
\* renamed; a writer that returned has no temporary file
TargetOfOneWriter ==
  /\ call.pc = "returned" => ~fs.tmp_filename.exists
  /\ \A w \in DOMAIN others :
       others[w].call.pc = "returned" => ~others[w].tmp_filename.exists
  /\ \/ \A c \in Writers : c.pc = "idle"
     \/ \E c \in Writers : c.pc # "idle" /\ Renamed = {} /\ fs.filename = c.before
     \/ \E c \in Renamed : fs.filename.content = c.contents /\ ~fs.filename.symlink

\* filename changes in g_rename only, to all bytes of the writer renaming
LastRenameWins ==
  IF /\ others' = others /\ call.pc = "g_rename"
     /\ call'.log = Append(call.log, [syscall |-> "g_rename", ok |-> TRUE])
  THEN /\ fs'.filename.content = call.contents
       /\ fs'.filename.exists /\ ~fs'.tmp_filename.exists
  ELSE fs'.filename = fs.filename

\* C33: with writers of one filename in consistent mode interleaved in any
\* way, every writer has a temporary file of its own, filename is changed by
\* g_rename only and then holds all bytes of the writer that renamed, so that
\* after the last g_rename it holds the bytes of that writer and never a mix,
\* and no temporary file of a writer that returned is left.
WritersNeverMix ==
  /\ []OwnTempFiles
  /\ []TargetOfOneWriter
  /\ [][LastRenameWins]_vars

\* both writers renamed, each from a file of its own name, and returned
BothWritersRenamed ==
  /\ WritersReturned /\ Cardinality(Renamed) = 2
  /\ call.contents # others[1].call.contents
  /\ {call.XXXXXX, others[1].call.XXXXXX} = {0, ValueStep}
  /\ fs.filename.content = call.contents

DescriptorsClosed == call.pc = "returned" => call.fds = {}

\* C37: in a call with G_FILE_SET_CONTENTS_DURABLE |
\* G_FILE_SET_CONTENTS_ONLY_EXISTING and no G_FILE_SET_CONTENTS_CONSISTENT,
\* fd_should_be_fsynced sees filename as g_open left it and before
\* truncate_file: g_lstat reports the size filename had before the call (0
\* for a file that g_open created). A filename that held bytes is synced
\* after the last write of a call that returns TRUE; a filename that was
\* missing is not synced when g_lstat answered.
FsyncDecidedBeforeTruncate ==
  (/\ ~Consistent
   /\ call.flags = {G_FILE_SET_CONTENTS_DURABLE, G_FILE_SET_CONTENTS_ONLY_EXISTING}
   /\ (call.pc = "ftruncate" \/ Tried("ftruncate") # {})) =>
    /\ Did("g_open") # {}
    /\ call.st.ok => call.st.st_size = Len(call.before.content)
    /\ call.before.exists /\ Len(call.before.content) > 0 => call.do_fsync
    /\ ~call.before.exists /\ call.st.ok => ~call.do_fsync
    /\ call.pc = "returned" /\ call.retval =>
         IF call.do_fsync
         THEN \E i \in Did("g_fsync") :
                \A j \in Tried("write") \cup Tried("ftruncate") : j < i
         ELSE Tried("g_fsync") = {}

\* a file that held bytes was truncated, written and then synced
ExistingTargetSynced ==
  /\ call.pc = "returned" /\ call.retval /\ ~Consistent
  /\ call.flags = {G_FILE_SET_CONTENTS_DURABLE, G_FILE_SET_CONTENTS_ONLY_EXISTING}
  /\ Len(call.before.content) > 0 /\ call.st.ok
  /\ Did("write") # {} /\ Did("g_fsync") # {}

\* ---- every call that takes elements out of an array, with the destructor
\* calls of each call recorded. The elements of the arrays are the elements
\* that were added: a GArray grows in g_array_set_size only when it zeroes its
\* new elements, and not over memory that the caller never wrote
InitDestroy ==
  /\ observe = TRUE /\ reallocs = Uncounted
  /\ \E gc \in BOOLEAN :
       /\ g_mem_gc_friendly = gc
       /\ \/ \E zt \in BOOLEAN, cl \in BOOLEAN, es \in EltSizes :
               StartArray("GArray", g_array_sized_new(zt, cl, es, 0, Junk), <<>>)
          \/ \E nt \in BOOLEAN :
               StartPtrArray(ptr_array_new(0, TRUE, nt, Junk), <<>>)

\* the calls meet their preconditions; the destructor of a GArray is set
\* before the first element is added
NextDestroy ==
  \/ \E n \in Counts : \E fill \in FreshFor(n) : AppendVals(n, fill)
  \/ added = {} /\ ~array.clear_func /\ SetClearFunc(TRUE)
  \/ \E length \in 0..MaxLen :
       /\ length <= array.len \/ array.clear
       /\ \E fill \in FreshFor(IF length > array.len THEN length - array.len ELSE 0) :
            SetSize(length, fill)
  \/ \E index \in ValidIndex : RemoveIndex(index)
  \/ \E index \in ValidIndex : RemoveIndexFast(index)
  \/ \E p \in ValidRangeArgs : RemoveRange(p[1], p[2])
  \/ GArrayShare
  \/ \E free_segment \in BOOLEAN : Free(free_segment)
  \/ \E fill \in PFreshFor(1) : PtrAdd(fill)
  \/ \E index \in PValidIndex : PtrRemoveIndex(index)
  \/ \E index \in PValidIndex : PtrRemoveIndexFast(index)
  \/ \E index \in PValidIndex : PtrStealIndex(index)
  \/ \E index \in PValidIndex : PtrStealIndexFast(index)
  \/ \E p \in PValidRangeArgs : PtrRemoveRange(p[1], p[2])
  \/ \E length \in 0..MaxLen :
       \E fill \in PFreshFor(IF length > rarray.len THEN length - rarray.len ELSE 0) :
          PtrSetSize(length, fill)
  \/ GPtrArrayShare
  \/ \E free_segment \in BOOLEAN : PtrFree(free_segment)

SpecDestroy == InitDestroy /\ [][NextDestroy]_vars

\* the elements of the array in use that were added
InArray == IF facade = "GPtrArray" THEN Payloads(PElements) ELSE Payloads(Elements)

\* the elements that were added among those the destructor calls of q were
\* made on
DestroyedAdded(q) == {x \in Destroyed(q) : x > 0}

\* the destructor calls of trace q on element x
DestructorCalls(q, x) ==
  {k \in DOMAIN q :
     \/ "clear_func" \in DOMAIN q[k] /\ q[k].clear_func = x
     \/ "element_free_func" \in DOMAIN q[k] /\ q[k].element_free_func = x}

\* an element that left the array, destroyed or handed to the caller, is not
\* in the array
GoneIsGone == wrapper = "live" => InArray \cap removed = {}

\* the destructor calls of one call: once on an element, which was in the
\* array, had not left it before and is not in it afterwards; none on the
\* elements that the call hands to its caller
DestroyedOnceStep ==
  /\ \A x \in DestroyedAdded(trace') :
       /\ Cardinality(DestructorCalls(trace', x)) = 1
       /\ x \in InArray /\ x \notin removed
       /\ wrapper' = "live" => x \notin InArray'
  /\ op' \in {"g_array_steal", "g_ptr_array_steal"} =>
       DestroyedAdded(trace') = {}
  /\ op' \in {"g_ptr_array_steal_index", "g_ptr_array_steal_index_fast"} =>
       DestroyedAdded(trace') = {}
  /\ (/\ op' \in {"g_array_free", "g_ptr_array_free"}
      /\ "segment" \in DOMAIN ret' /\ ~ret'.segment.null) =>
       DestroyedAdded(trace') = {}

AnySeqs == UNION {[1..n -> Keys] : n \in 0..MaxSearchLen}
\* the arrays of G_MAXUINT elements that are below the target up to an index
FullSeqs ==
  {[i \in 1..G_MAXUINT |-> IF i <= t THEN 1 ELSE MaxKey] : t \in 0..G_MAXUINT}

InitSearchAny ==
  /\ observe = TRUE /\ reallocs = Uncounted /\ g_mem_gc_friendly = FALSE
  /\ \E es \in EltSizes, s \in AnySeqs \cup FullSeqs :
        StartArray("GArray", g_array_new_take(Block(s), Len(s), FALSE, es), s)

SpecSearchAny == InitSearchAny /\ [][NextSearch]_vars

RECURSIVE FloorLog2(_)
FloorLog2(n) == IF n <= 1 THEN 0 ELSE 1 + FloorLog2(n \div 2)

\* the calls of the comparison function in trace q
Comparisons(q) == SelectSeq(q, LAMBDA e : "compare_func" \in DOMAIN e)

\* C38: g_array_binary_search returns for every array, in order or not, of
\* every len up to G_MAXUINT, after at most floor(log2(len)) + 1 calls of the
\* comparison function (none for len 0), each on an index in 0 .. len-1, with
\* left <= middle <= right < len at every call: right does not go below 0
\* and left does not go past len.
SearchBounded ==
  op = "g_array_binary_search" =>
    /\ ~oob /\ "bool" \in DOMAIN ret
    /\ Len(Comparisons(trace)) <= IF array.len = 0 THEN 0 ELSE FloorLog2(array.len) + 1
    /\ \A k \in DOMAIN Comparisons(trace) :
         LET e == Comparisons(trace)[k]
         IN /\ 0 <= e.left /\ e.left <= e.compare_func
            /\ e.compare_func <= e.right /\ e.right < array.len
            /\ e.compare_func = e.left + (e.right - e.left) \div 2

\* a search of an array of G_MAXUINT elements that went down to index 0 in
\* as many comparisons as the bound allows
SearchedDownToZero ==
  /\ op = "g_array_binary_search" /\ array.len = G_MAXUINT /\ ret = RetBool(FALSE)
  /\ Len(Comparisons(trace)) = FloorLog2(array.len) + 1
  /\ Comparisons(trace)[Len(Comparisons(trace))].compare_func = 0

\* ---- inserting at and past the end of arrays of any length, up to the
\* greatest index a guint holds. The trace of a call starts with its
\* arguments
FarLengths ==
  {0, 1, G_MAXUINT \div 2 - 1, G_MAXUINT \div 2, G_MAXUINT - 1, G_MAXUINT}

InitInsertFar ==
  /\ observe = TRUE /\ reallocs = Uncounted
  /\ \E gc \in BOOLEAN, zt \in BOOLEAN, cl \in BOOLEAN, es \in GrowEltSizes :
        /\ g_mem_gc_friendly = gc
        /\ StartArray("GArray", g_array_sized_new(zt, cl, es, 0, Junk), <<>>)

InsertFar(index, n, fill) ==
  /\ facade = "GArray" /\ wrapper = "live" /\ op \in {"new", "g_array_set_size"}
  /\ index >= array.len
  /\ LET c == g_array_insert_vals(Ctx(array), index, Fresh(n), fill)
     IN Done([c EXCEPT !.trace = <<[index_ |-> index, len |-> n]>> \o @],
             "g_array_insert_vals")
  /\ Adds(Fresh(n))

NextInsertFar ==
  \/ \E length \in FarLengths :
       \E fill \in FreshFor(length - array.len) : GrowTo(length, fill)
  \/ \E index \in 0..G_MAXUINT, n \in Counts :
       \E fill \in FreshFor(MAX(index - array.len, 0) + n) : InsertFar(index, n, fill)

SpecInsertFar == InitInsertFar /\ [][NextInsertFar]_vars

\* the call returned with len = index_ + len and room for it
InsertedAt(index, n) ==
  /\ wrapper = "live" /\ ~oob
  /\ array.len = index + n
  /\ array.elt_capacity >= array.len + array.zero_terminated

\* C39 as stated: for every index >= len and every count, either index +
\* count is within the greatest len and g_array_insert_vals ends with len =
\* index + count and room for len and the terminator, or it ends in the
\* fatal error.
InsertNeverWraps ==
  op = "g_array_insert_vals" =>
    IF trace[1].index_ + trace[1].len <= MaxLenOf(array.elt_size, array.zero_terminated)
    THEN InsertedAt(trace[1].index_, trace[1].len)
    ELSE wrapper = "aborted"

\* C39, amended: the same for every count of at least one element.
InsertOfSomeNeverWraps ==
  op = "g_array_insert_vals" /\ trace[1].len >= 1 =>
    IF trace[1].index_ + trace[1].len <= MaxLenOf(array.elt_size, array.zero_terminated)
    THEN InsertedAt(trace[1].index_, trace[1].len)
    ELSE wrapper = "aborted"

\* index_ - len + len wrapped to 0 in g_array_insert_vals and the call ended
\* in the fatal error
WrappedSumStopped ==
  /\ op = "g_array_insert_vals" /\ wrapper = "aborted"
  /\ trace[1].index_ = G_MAXUINT /\ trace[1].len = 1
  /\ array.zero_terminated = 0 /\ array.len = G_MAXUINT
====
